---- MODULE Spec2Model ----
(***************************************************************************)
(* BibRecord (harvestingkit/bibrecord.py): the record data model and its   *)
(* position-bookkeeping mutation algorithms.                               *)
(*                                                                         *)
(* A record is a Python dict {tag: [field, ...]}; here a function whose    *)
(* DOMAIN is the set of keys.  A field is the tuple                        *)
(* (subfields, ind1, ind2, controlfield_value, field_position_global),     *)
(* here the record [sf, ind1, ind2, val, pos].  A subfield is <<code,      *)
(* value>>.  An optional argument is <<>> for None and <<x>> for x.        *)
(***************************************************************************)
EXTENDS Integers, Sequences, FiniteSets, TLC

VARIABLES rec, old, last, pc

vars == <<rec, old, last, pc>>

----------------------------------------------------------------------------
(* Bounds of the model *)

\* no call grows the record beyond this number of fields, and the documents
\* the parser is run on hold at most this number of elements
MaxFields == 3

\* no call is made that would push a global position beyond this value
MaxPos == MaxFields + 1

\* no call grows the subfield list of a field beyond this length
MaxSubfields == 2

----------------------------------------------------------------------------
(* Python values *)

None == <<>>
Some(x) == <<x>>

Min2(a, b) == IF a < b THEN a ELSE b
Max2(a, b) == IF a < b THEN b ELSE a

SetMax(S) == CHOOSE x \in S : \A y \in S : y <= x
SetMin(S) == CHOOSE x \in S : \A y \in S : x <= y

\* list.insert(i, x): an index beyond the end appends, a negative index
\* counts from the end
ListInsert(s, i, x) ==
    LET n == Len(s)
        k == IF i < 0 THEN Max2(0, n + i) ELSE Min2(i, n)
    IN  SubSeq(s, 1, k) \o <<x>> \o SubSeq(s, k + 1, n)

\* del s[i] for a valid index 0 <= i < len(s)
ListDel(s, i) == SubSeq(s, 1, i) \o SubSeq(s, i + 2, Len(s))

\* the elements of s at the 0-based indices in I, in the order of s
ListByIndex(s, I) ==
    LET RECURSIVE go(_)
        go(i) == IF i > Len(s) THEN <<>>
                 ELSE (IF (i - 1) \in I THEN <<s[i]>> ELSE <<>>) \o go(i + 1)
    IN  go(1)

Reverse(s) == [i \in 1..Len(s) |-> s[Len(s) + 1 - i]]

Range(s) == {s[i] : i \in 1..Len(s)}

----------------------------------------------------------------------------
(* Tags.  Python compares tags as strings; TagOrd is the rank of each tag  *)
(* of the model in that (lexicographic, ASCII) order.                      *)

Tags == {"100", "245", "500", "FMT"}

TagOrd == [t \in Tags \cup {"000"} |->
             CASE t = "000" -> 0
               [] t = "100" -> 1
               [] t = "245" -> 2
               [] t = "500" -> 3
               [] t = "FMT" -> 4]

TagLess(a, b) == TagOrd[a] < TagOrd[b]

AdminTags == {"FMT", "FFT", "BDR", "BDM"}

----------------------------------------------------------------------------
(* Records *)

EmptyRec == [t \in {} |-> <<>>]

\* rec.get(tag, [])
Get(r, tag) == IF tag \in DOMAIN r THEN r[tag] ELSE <<>>

\* rec[tag] = fields
Put(r, tag, fields) ==
    [t \in DOMAIN r \cup {tag} |-> IF t = tag THEN fields ELSE r[t]]

\* del rec[tag]
Del(r, tag) == [t \in DOMAIN r \ {tag} |-> r[t]]

MkField(sf, i1, i2, val, pos) ==
    [sf |-> sf, ind1 |-> i1, ind2 |-> i2, val |-> val, pos |-> pos]

\* field[:4]
Content(f) == <<f.sf, f.ind1, f.ind2, f.val>>

\* [field[4] for fields in rec.values() for field in fields]
AllPositions(r) == UNION {{r[t][i].pos : i \in 1..Len(r[t])} : t \in DOMAIN r}

NumFields(r) ==
    LET RECURSIVE sum(_)
        sum(S) == IF S = {} THEN 0
                  ELSE LET t == CHOOSE t \in S : TRUE
                       IN  Len(r[t]) + sum(S \ {t})
    IN  sum(DOMAIN r)

----------------------------------------------------------------------------
(* Helpers of the mutation engine *)

\* faulty variant: the indicator is taken as it is
unwashed_indicator(indicator) ==
    indicator

\* _wash_indicators: an empty string or an underscore becomes a blank
wash_indicator(indicator) ==
    IF indicator \in {"", "_"} THEN " " ELSE indicator

\* faulty variant: shifts only the positions strictly greater than start
shift_field_positions_after(r, start, delta) ==
    IF delta = 0 THEN r
    ELSE [t \in DOMAIN r |->
            [i \in 1..Len(r[t]) |->
                IF r[t][i].pos <= start THEN r[t][i]
                ELSE [r[t][i] EXCEPT !.pos = @ + delta]]]

\* _shift_field_positions_global(record, start, delta)
shift_field_positions_global(r, start, delta) ==
    IF delta = 0 THEN r
    ELSE [t \in DOMAIN r |->
            [i \in 1..Len(r[t]) |->
                IF r[t][i].pos < start THEN r[t][i]
                ELSE [r[t][i] EXCEPT !.pos = @ + delta]]]

\* faulty variant: stops at the first lower tag instead of the nearest one
immediate_lower_tag_first(r, tag) ==
    LET lower == {t \in DOMAIN r : TagLess("000", t) /\ TagLess(t, tag)}
    IN  IF lower = {} THEN "000"
        ELSE CHOOSE t \in lower : \A u \in lower : ~TagLess(u, t)

\* the loop of record_add_field that looks for the tag to insert after:
\* immediate_lower_tag starts at '000' and moves to every key of the record
\* that lies strictly between it and the new tag
immediate_lower_tag(r, tag) ==
    LET lower == {t \in DOMAIN r : TagLess("000", t) /\ TagLess(t, tag)}
    IN  IF lower = {} THEN "000"
        ELSE CHOOSE t \in lower : \A u \in lower : ~TagLess(t, u)

\* max(all_field_positions_global) + 1, or 1 on an empty record
end_of_record(r) ==
    IF AllPositions(r) # {} THEN SetMax(AllPositions(r)) + 1 ELSE 1

----------------------------------------------------------------------------
(* record_add_field.  The result is [rec, ret]: the record after the call  *)
(* and the returned global position (-1: rejected).  Local positions are   *)
(* non-negative.                                                           *)

\* faulty variant: administrative tags are ordered like the numeric ones
add_position_computed_by_tag_order(r, tag) ==
    IF tag \in DOMAIN r
    THEN SetMax({r[tag][i].pos : i \in 1..Len(r[tag])}) + 1
    ELSE IF immediate_lower_tag(r, tag) = "000"
         THEN 1
         ELSE LET fields == r[immediate_lower_tag(r, tag)]
              IN  fields[Len(fields)].pos + 1

\* the branch taken when neither position is given
add_position_computed(r, tag) ==
    IF tag \in DOMAIN r
    THEN SetMax({r[tag][i].pos : i \in 1..Len(r[tag])}) + 1
    ELSE IF tag \in AdminTags
         THEN end_of_record(r)
         ELSE IF immediate_lower_tag(r, tag) = "000"
              THEN 1
              ELSE LET fields == r[immediate_lower_tag(r, tag)]
                   IN  fields[Len(fields)].pos + 1

\* the branch taken when field_position_local is given: [rec, g]
add_position_local(r, tag, field_position_local) ==
    IF tag \in DOMAIN r
    THEN LET g == IF field_position_local >= Len(r[tag])
                  THEN r[tag][Len(r[tag])].pos + 1
                  ELSE r[tag][field_position_local + 1].pos
         IN  [rec |-> shift_field_positions_global(r, g, 1), g |-> g]
    ELSE [rec |-> r, g |-> end_of_record(r)]

\* faulty variant: a position above the tag's highest one is taken as given
add_position_global_unclamped(r, tag, field_position_global) ==
    LET tag_field_positions_global ==
            {Get(r, tag)[i].pos : i \in 1..Len(Get(r, tag))}
    IN  IF tag \notin DOMAIN r
        THEN [rec |-> r, g |-> end_of_record(r), local |-> 0]
        ELSE IF field_position_global < SetMin(tag_field_positions_global)
        THEN [rec |-> shift_field_positions_global(
                          r, SetMin(tag_field_positions_global), 1),
              g |-> SetMin(tag_field_positions_global),
              local |-> 0]
        ELSE [rec |-> shift_field_positions_global(
                          r, field_position_global, 1),
              g |-> field_position_global,
              local |-> Cardinality({p \in tag_field_positions_global :
                                        p < field_position_global})]

\* the branch taken when only field_position_global is given: [rec, g, local]
add_position_global(r, tag, field_position_global) ==
    LET tag_field_positions_global ==
            {Get(r, tag)[i].pos : i \in 1..Len(Get(r, tag))}
    IN  IF tag \notin DOMAIN r
        THEN [rec |-> r, g |-> end_of_record(r), local |-> 0]
        ELSE IF field_position_global < SetMin(tag_field_positions_global)
        THEN [rec |-> shift_field_positions_global(
                          r, SetMin(tag_field_positions_global), 1),
              g |-> SetMin(tag_field_positions_global),
              local |-> 0]
        ELSE IF field_position_global > SetMax(tag_field_positions_global)
        THEN [rec |-> shift_field_positions_global(
                          r, SetMax(tag_field_positions_global) + 1, 1),
              g |-> SetMax(tag_field_positions_global) + 1,
              local |-> Len(r[tag])]
        ELSE LET shifted ==
                     IF field_position_global \in tag_field_positions_global
                     THEN shift_field_positions_global(
                              r, field_position_global, 1)
                     ELSE r
                 hits == {i \in 1..Len(shifted[tag]) :
                             shifted[tag][i].pos = field_position_global + 1}
             IN  [rec |-> shifted,
                  g |-> field_position_global,
                  local |-> IF hits = {} THEN 0 ELSE SetMax(hits) - 1]

\* faulty variant: the subfields are not looked at
control_with_indicators(ind1, ind2, controlfield_value, subfields) ==
    controlfield_value # "" /\ (ind1 # " " \/ ind2 # " ")

\* controlfield_value and (ind1 != ' ' or ind2 != ' ' or subfields)
control_with_data(ind1, ind2, controlfield_value, subfields) ==
    controlfield_value # "" /\ (ind1 # " " \/ ind2 # " " \/ subfields # <<>>)

record_add_field(r, tag, ind1_, ind2_, controlfield_value, subfields, field_position_global, field_position_local) ==
    LET ind1 == wash_indicator(ind1_)
        ind2 == wash_indicator(ind2_)
    IN  IF control_with_data(ind1, ind2, controlfield_value, subfields)
        THEN [rec |-> r, ret |-> -1]
        ELSE
        LET plan ==
              IF field_position_global = None /\ field_position_local = None
              THEN LET g == add_position_computed(r, tag)
                   IN  [rec |-> shift_field_positions_global(r, g, 1),
                        g |-> g,
                        local |-> Len(Get(r, tag))]
              ELSE IF field_position_local # None
              THEN LET p == add_position_local(r, tag,
                                               field_position_local[1])
                   IN  [rec |-> p.rec, g |-> p.g,
                        local |-> field_position_local[1]]
              ELSE add_position_global(r, tag, field_position_global[1])
            newfield == MkField(subfields, ind1, ind2, controlfield_value,
                                plan.g)
        IN  [rec |-> Put(plan.rec, tag,
                         ListInsert(Get(plan.rec, tag), plan.local, newfield)),
             ret |-> plan.g]

----------------------------------------------------------------------------
(* record_delete_field.  The result is [rec, ret, kind]: kind is "False"   *)
(* when the call returns False, else "list" and ret is the returned list.  *)

\* faulty variant: a tag that has lost its last field stays in the record
keep_if_empty(r, tag) == r

\* if not rec[tag]: del rec[tag]
drop_if_empty(r, tag) == IF r[tag] = <<>> THEN Del(r, tag) ELSE r

\* faulty variant: an index past the end removes the last field of the tag
delete_field_local_clamped(r, tag, field_position_local) ==
    [rec |-> drop_if_empty(
                 Put(r, tag, ListDel(r[tag], Min2(field_position_local,
                                                  Len(r[tag]) - 1))),
                 tag),
     ret |-> <<>>,
     kind |-> "list"]

\* try: del rec[tag][field_position_local]
\* except IndexError: return []
delete_field_local(r, tag, field_position_local) ==
    IF field_position_local >= Len(r[tag])
    THEN [rec |-> r, ret |-> <<>>, kind |-> "list"]
    ELSE [rec |-> drop_if_empty(
                      Put(r, tag, ListDel(r[tag], field_position_local)),
                      tag),
          ret |-> <<>>,
          kind |-> "list"]

record_delete_field(r, tag, ind1_, ind2_, field_position_global, field_position_local) ==
    LET ind1 == wash_indicator(ind1_)
        ind2 == wash_indicator(ind2_)
        KeepInd(f) == f.ind1 # ind1 \/ f.ind2 # ind2
        DropInd(f) == ~KeepInd(f)
        KeepGlobal(f) == (f.ind1 # ind1 /\ f.ind2 # ind2)
                         \/ f.pos # field_position_global[1]
        DropGlobal(f) == ~KeepGlobal(f)
    IN  IF tag \notin DOMAIN r
        THEN [rec |-> r, ret |-> <<>>, kind |-> "False"]
        ELSE IF field_position_global = None /\ field_position_local = None
        THEN [rec |-> drop_if_empty(
                          Put(r, tag, SelectSeq(r[tag], KeepInd)), tag),
              ret |-> SelectSeq(r[tag], DropInd),
              kind |-> "list"]
        ELSE IF field_position_global # None
        THEN [rec |-> drop_if_empty(
                          Put(r, tag, SelectSeq(r[tag], KeepGlobal)), tag),
              ret |-> SelectSeq(r[tag], DropGlobal),
              kind |-> "list"]
        ELSE delete_field_local(r, tag, field_position_local[1])

----------------------------------------------------------------------------
(* record_delete_fields, record_add_fields, record_move_fields.            *)
(* field_positions_local is None or <<S>>, S the set of listed positions.  *)

record_delete_fields(r, tag, field_positions_local) ==
    LET positions == 0..(Len(Get(r, tag)) - 1)
        selected == IF field_positions_local = None THEN positions
                    ELSE positions \cap field_positions_local[1]
        new_fields == ListByIndex(Get(r, tag), positions \ selected)
        deleted_fields == ListByIndex(Get(r, tag), selected)
    IN  IF tag \notin DOMAIN r
        THEN [rec |-> r, ret |-> <<>>]
        ELSE [rec |-> IF new_fields # <<>> THEN Put(r, tag, new_fields)
                      ELSE Del(r, tag),
              ret |-> deleted_fields]

RECURSIVE add_each(_, _, _, _, _)
add_each(r, tag, fields, field_position_local, field_position_global) ==
    IF fields = <<>> THEN r
    ELSE add_each(record_add_field(r, tag, Head(fields).ind1,
                                   Head(fields).ind2, Head(fields).val,
                                   Head(fields).sf, field_position_global,
                                   field_position_local).rec,
                  tag, Tail(fields), field_position_local,
                  field_position_global)

record_add_fields(r, tag, fields, field_position_local, field_position_global) ==
    IF field_position_local = None /\ field_position_global = None
    THEN [rec |-> add_each(r, tag, fields, None, None),
          ret |-> field_position_local]
    ELSE [rec |-> add_each(r, tag, Reverse(fields), field_position_local,
                           field_position_global),
          ret |-> field_position_local]

record_move_fields(r, tag, field_positions_local, field_position_local) ==
    LET deleted == record_delete_fields(r, tag, field_positions_local)
    IN  record_add_fields(deleted.rec, tag, deleted.ret,
                          field_position_local, None)

----------------------------------------------------------------------------
(* record_replace_field.  The result is [rec, exc]: exc names the raised   *)
(* exception, "" when the call returns.                                    *)

FieldError == "InvenioBibRecordFieldError"

record_replace_field(r, tag, new_field, field_position_global, field_position_local) ==
    IF field_position_global = None /\ field_position_local = None
    THEN [rec |-> r, exc |-> FieldError]
    ELSE IF field_position_global # None /\ field_position_local # None
    THEN [rec |-> r, exc |-> FieldError]
    ELSE IF field_position_global # None /\ field_position_global[1] # 0
    THEN IF tag \notin DOMAIN r
         THEN [rec |-> r, exc |-> FieldError]
         ELSE IF \E i \in 1..Len(r[tag]) :
                     r[tag][i].pos = field_position_global[1]
         THEN [rec |-> Put(r, tag,
                           [i \in 1..Len(r[tag]) |->
                               IF r[tag][i].pos = field_position_global[1]
                               THEN new_field ELSE r[tag][i]]),
               exc |-> ""]
         ELSE [rec |-> r, exc |-> FieldError]
    ELSE IF tag \notin DOMAIN r
    THEN [rec |-> r, exc |-> FieldError]
    ELSE IF field_position_local = None
    THEN [rec |-> r, exc |-> "TypeError"]
    ELSE IF field_position_local[1] >= Len(r[tag])
    THEN [rec |-> r, exc |-> FieldError]
    ELSE [rec |-> Put(r, tag,
                      [r[tag] EXCEPT ![field_position_local[1] + 1] =
                                         new_field]),
          exc |-> ""]

----------------------------------------------------------------------------
(* record_get_field and the subfield-level operations built on it.  The    *)
(* result of record_get_field is [exc, loc]: the raised exception ("" when *)
(* the call returns) and the 1-based index in rec[tag] of the field        *)
(* returned.  The subfield-level operations give [rec, exc].               *)

record_get_field(r, tag, field_position_global, field_position_local) ==
    IF field_position_global = None /\ field_position_local = None
    THEN [exc |-> FieldError, loc |-> 0]
    ELSE IF field_position_global # None /\ field_position_local # None
    THEN [exc |-> FieldError, loc |-> 0]
    ELSE IF field_position_global # None /\ field_position_global[1] # 0
    THEN IF tag \notin DOMAIN r
         THEN [exc |-> FieldError, loc |-> 0]
         ELSE LET hits == {i \in 1..Len(r[tag]) :
                              r[tag][i].pos = field_position_global[1]}
              IN  IF hits = {} THEN [exc |-> FieldError, loc |-> 0]
                  ELSE [exc |-> "", loc |-> SetMin(hits)]
    ELSE IF tag \notin DOMAIN r
    THEN [exc |-> FieldError, loc |-> 0]
    ELSE IF field_position_local = None
    THEN [exc |-> "TypeError", loc |-> 0]
    ELSE IF field_position_local[1] >= Len(r[tag])
    THEN [exc |-> FieldError, loc |-> 0]
    ELSE [exc |-> "", loc |-> field_position_local[1] + 1]

\* the subfield list of the field at 1-based index loc of the tag is
\* changed in place to subfields
set_subfields(r, tag, loc, subfields) ==
    Put(r, tag, [r[tag] EXCEPT ![loc] = [@ EXCEPT !.sf = subfields]])

\* for position, field in enumerate(rec[tag]):
\*     if field[4] == field_position_global: del rec[tag][position]
\* (the index of the iteration goes on by one after a deletion as well)
delete_while_enumerating(fields, field_position_global) ==
    LET RECURSIVE go(_, _)
        go(fs, i) == IF i > Len(fs) THEN fs
                     ELSE IF fs[i].pos = field_position_global
                          THEN go(ListDel(fs, i - 1), i + 1)
                          ELSE go(fs, i + 1)
    IN  go(fields, 1)

\* faulty variant: the field that has lost its last subfield stays
keep_emptied_field(r, tag, field_position_global, field_position_local) ==
    r

\* the end of record_delete_subfield_from, when no subfield is left: the
\* addressed field goes, and the tag with it when it was the only field
remove_emptied_field(r, tag, field_position_global, field_position_local) ==
    drop_if_empty(
        Put(r, tag,
            IF field_position_global # None
            THEN delete_while_enumerating(r[tag], field_position_global[1])
            ELSE ListDel(r[tag], field_position_local[1])),
        tag)

record_delete_subfield_from(r, tag, subfield_position, field_position_global, field_position_local) ==
    LET got == record_get_field(r, tag, field_position_global,
                                field_position_local)
        subfields == r[tag][got.loc].sf
        r1 == set_subfields(r, tag, got.loc,
                            ListDel(subfields, subfield_position))
    IN  IF got.exc # "" THEN [rec |-> r, exc |-> got.exc]
        ELSE IF subfield_position >= Len(subfields)
        THEN [rec |-> r, exc |-> FieldError]
        ELSE IF Len(subfields) = 1
        THEN [rec |-> remove_emptied_field(r1, tag, field_position_global,
                                           field_position_local),
              exc |-> ""]
        ELSE [rec |-> r1, exc |-> ""]

\* subfield_position is None (append) or <<index>>
record_add_subfield_into(r, tag, subfield_code, value, subfield_position, field_position_global, field_position_local) ==
    LET got == record_get_field(r, tag, field_position_global,
                                field_position_local)
        subfields == r[tag][got.loc].sf
    IN  IF got.exc # "" THEN [rec |-> r, exc |-> got.exc]
        ELSE [rec |-> set_subfields(
                          r, tag, got.loc,
                          IF subfield_position = None
                          THEN Append(subfields, <<subfield_code, value>>)
                          ELSE ListInsert(subfields, subfield_position[1],
                                          <<subfield_code, value>>)),
              exc |-> ""]

record_modify_subfield(r, tag, subfield_code, value, subfield_position, field_position_global, field_position_local) ==
    LET got == record_get_field(r, tag, field_position_global,
                                field_position_local)
        subfields == r[tag][got.loc].sf
    IN  IF got.exc # "" THEN [rec |-> r, exc |-> got.exc]
        ELSE IF subfield_position >= Len(subfields)
        THEN [rec |-> r, exc |-> FieldError]
        ELSE [rec |-> set_subfields(
                          r, tag, got.loc,
                          [subfields EXCEPT ![subfield_position + 1] =
                                                <<subfield_code, value>>]),
              exc |-> ""]

record_move_subfield(r, tag, subfield_position, new_subfield_position, field_position_global, field_position_local) ==
    LET got == record_get_field(r, tag, field_position_global,
                                field_position_local)
        subfields == r[tag][got.loc].sf
    IN  IF got.exc # "" THEN [rec |-> r, exc |-> got.exc]
        ELSE IF subfield_position >= Len(subfields)
        THEN [rec |-> r, exc |-> FieldError]
        ELSE [rec |-> set_subfields(
                          r, tag, got.loc,
                          ListInsert(ListDel(subfields, subfield_position),
                                     new_subfield_position,
                                     subfields[subfield_position + 1])),
              exc |-> ""]

----------------------------------------------------------------------------
(* Strings.  The characters of the strings whose characters the code looks *)
(* at: tags and tag patterns, and the subfield values of the filters.      *)

StrChars(s) ==
    CASE s = "" -> <<>>
      [] s = "x" -> <<"x">>
      [] s = "y" -> <<"y">>
      [] s = "xy" -> <<"x", "y">>
      [] s = "100" -> <<"1", "0", "0">>
      [] s = "245" -> <<"2", "4", "5">>
      [] s = "500" -> <<"5", "0", "0">>
      [] s = "555" -> <<"5", "5", "5">>
      [] s = "FMT" -> <<"F", "M", "T">>
      [] s = "5%%" -> <<"5", "%", "%">>
      [] s = "%%%" -> <<"%", "%", "%">>
      [] s = " " -> <<" ">>
      [] s = "!" -> <<"!">>
      [] s = "_" -> <<"_">>
      [] s = "A" -> <<"A">>
      [] s = "B" -> <<"B">>
      [] s = "a" -> <<"a">>
      [] s = "b" -> <<"b">>
      [] s = "v" -> <<"v">>
      [] s = "000" -> <<"0", "0", "0">>
      [] s = "001" -> <<"0", "0", "1">>
      [] s = "005" -> <<"0", "0", "5">>
      [] s = "&" -> <<"&">>

\* s.find(v): the lowest 0-based index at which v occurs in s, -1 if none
str_find(s, v) ==
    LET cs == StrChars(s)
        cv == StrChars(v)
        at == {i \in 0..(Len(cs) - Len(cv)) :
                  SubSeq(cs, i + 1, i + Len(cv)) = cv}
    IN  IF at = {} THEN -1 ELSE SetMin(at)

\* '%' in tag
has_wildcard(tag) == "%" \in Range(StrChars(tag))

\* _tag_matches_pattern(tag, pattern)
tag_matches_pattern(tag, pattern) ==
    \A i \in 1..Min2(Len(StrChars(tag)), Len(StrChars(pattern))) :
        StrChars(pattern)[i] \in {"%", StrChars(tag)[i]}

RECURSIVE Concat(_)
Concat(ss) == IF ss = <<>> THEN <<>> ELSE Head(ss) \o Concat(Tail(ss))

\* Python 2 orders strings by their bytes
\* ord(c)
CharCode(c) ==
    CASE c = " " -> 32 [] c = "!" -> 33 [] c = "%" -> 37 [] c = "&" -> 38
      [] c = "0" -> 48 [] c = "1" -> 49 [] c = "2" -> 50 [] c = "3" -> 51
      [] c = "4" -> 52 [] c = "5" -> 53 [] c = "9" -> 57
      [] c = "A" -> 65 [] c = "B" -> 66 [] c = "F" -> 70 [] c = "M" -> 77
      [] c = "T" -> 84 [] c = "_" -> 95
      [] c = "a" -> 97 [] c = "b" -> 98 [] c = "v" -> 118
      [] c = "x" -> 120 [] c = "y" -> 121

cmp_int(a, b) == IF a < b THEN -1 ELSE IF a > b THEN 1 ELSE 0

RECURSIVE cmp_chars(_, _)
cmp_chars(a, b) ==
    IF a = <<>> THEN (IF b = <<>> THEN 0 ELSE -1)
    ELSE IF b = <<>> THEN 1
    ELSE IF CharCode(Head(a)) # CharCode(Head(b))
         THEN cmp_int(CharCode(Head(a)), CharCode(Head(b)))
         ELSE cmp_chars(Tail(a), Tail(b))

\* cmp(s, t) of two strings
cmp_str(s, t) == cmp_chars(StrChars(s), StrChars(t))

----------------------------------------------------------------------------
(* The query engine.  A dictionary is iterated in an order the language    *)
(* does not fix: order is the sequence of the record's tags the iteration  *)
(* of the call yields.                                                     *)

Orders(r) ==
    {o \in [1..Cardinality(DOMAIN r) -> DOMAIN r] :
        \A i, j \in DOMAIN o : i # j => o[i] # o[j]}

\* faulty variant: a blank selector matches any indicator, like '%'
indicator_selected_collapsed(ind, field_ind) ==
    ind \in {"%", " ", field_ind}

\* ind in ('%', field[n])
indicator_selected(ind, field_ind) == ind \in {"%", field_ind}

\* the fields of the tags that match the pattern, tag after tag in the order
\* of the iteration
fields_in_scan_order(r, order, tag) ==
    IF has_wildcard(tag)
    THEN Concat([i \in 1..Len(order) |->
                    IF tag_matches_pattern(order[i], tag)
                    THEN r[order[i]] ELSE <<>>])
    ELSE Get(r, tag)

\* The result is [kind, out]: kind is "items" when the call returns
\* rec.items(), the sequence of (tag, fields) pairs, else "list".
record_get_field_instances(r, order, tag, ind1_, ind2_) ==
    LET ind1 == wash_indicator(ind1_)
        ind2 == wash_indicator(ind2_)
        Selected(f) == /\ indicator_selected(ind1, f.ind1)
                       /\ indicator_selected(ind2, f.ind2)
    IN  IF DOMAIN r = {} THEN [kind |-> "list", out |-> <<>>]
        ELSE IF tag = ""
        THEN [kind |-> "items",
              out |-> [i \in 1..Len(order) |-> <<order[i], r[order[i]]>>]]
        ELSE [kind |-> "list",
              out |-> SelectSeq(fields_in_scan_order(r, order, tag),
                                Selected)]

\* faulty variant: a field without a value gives its first subfield's value
control_value_or_subfield(field) ==
    IF field.val # "" THEN field.val
    ELSE IF field.sf # <<>> THEN field.sf[1][2] ELSE ""

\* field[3]
control_value(field) == field.val

\* [subfield[1] for subfield in field[0] if subfield[0] == code]
values_of_code(subfields, code) ==
    LET Is(sub) == sub[1] = code
        subs == SelectSeq(subfields, Is)
    IN  [i \in 1..Len(subs) |-> subs[i][2]]

\* faulty variant: the value of the last matching subfield
last_value(values) ==
    IF values = <<>> THEN "" ELSE values[Len(values)]

\* the value of the first matching subfield the loops come to, "" when they
\* come to none
first_value(values) ==
    IF values = <<>> THEN "" ELSE Head(values)

record_get_field_value(r, order, tag, ind1_, ind2_, code) ==
    LET ind1 == wash_indicator(ind1_)
        ind2 == wash_indicator(ind2_)
        Selected(f) == /\ indicator_selected(ind1, f.ind1)
                       /\ indicator_selected(ind2, f.ind2)
        fields == SelectSeq(fields_in_scan_order(r, order, tag), Selected)
        HasValue(f) == control_value(f) # ""
        HasSubfield(f) == f.sf # <<>>
        values == Concat([i \in 1..Len(fields) |->
                             values_of_code(fields[i].sf, code)])
    IN  IF code = ""
        THEN IF SelectSeq(fields, HasValue) = <<>> THEN ""
             ELSE control_value(Head(SelectSeq(fields, HasValue)))
        ELSE IF code = "%"
        THEN IF SelectSeq(fields, HasSubfield) = <<>> THEN ""
             ELSE Head(SelectSeq(fields, HasSubfield)).sf[1][2]
        ELSE first_value(values)

\* dict(field[0]).get(code, ''): the value of the last subfield with the code
dict_get(subfields, code) ==
    IF values_of_code(subfields, code) = <<>> THEN ""
    ELSE values_of_code(subfields, code)[Len(values_of_code(subfields, code))]

\* the filter test of record_get_field_values on one field, in the modes
\* 'e' and 's'
field_passes_filter(subfields, filter_subfield_code, filter_subfield_value, filter_subfield_mode) ==
    IF filter_subfield_mode = "e"
    THEN <<filter_subfield_code, filter_subfield_value>> \in Range(subfields)
    ELSE IF filter_subfield_mode = "s"
    THEN str_find(dict_get(subfields, filter_subfield_code),
                  filter_subfield_value) > -1
    ELSE FALSE

record_get_field_values(r, order, tag, ind1_, ind2_, code, filter_subfield_code, filter_subfield_value, filter_subfield_mode) ==
    LET ind1 == wash_indicator(ind1_)
        ind2 == wash_indicator(ind2_)
        Selected(f) == /\ indicator_selected(ind1, f.ind1)
                       /\ indicator_selected(ind2, f.ind2)
        fields == SelectSeq(fields_in_scan_order(r, order, tag), Selected)
        HasValue(f) == f.val # ""
        Passes(f) ==
            \/ filter_subfield_code = ""
            \/ field_passes_filter(f.sf, filter_subfield_code,
                                   filter_subfield_value,
                                   filter_subfield_mode)
        passing == SelectSeq(fields, Passes)
    IN  IF code = ""
        THEN [i \in 1..Len(SelectSeq(fields, HasValue)) |->
                 SelectSeq(fields, HasValue)[i].val]
        ELSE IF code = "%"
        THEN Concat([i \in 1..Len(passing) |->
                        [j \in 1..Len(passing[i].sf) |-> passing[i].sf[j][2]]])
        ELSE Concat([i \in 1..Len(passing) |->
                        values_of_code(passing[i].sf, code)])

\* in the modes 'e' and 's'
filter_field_instances(field_instances, filter_subcode, filter_value, filter_mode) ==
    LET Matched(instance) ==
            IF filter_mode = "e"
            THEN <<filter_subcode, filter_value>> \in Range(instance.sf)
            ELSE IF filter_mode = "s"
            THEN \E j \in 1..Len(instance.sf) :
                    /\ instance.sf[j][1] = filter_subcode
                    /\ str_find(instance.sf[j][2], filter_value) > -1
            ELSE FALSE
    IN  SelectSeq(field_instances, Matched)

\* faulty variant: the subfields are compared as sets in the strict mode too
compare_fields_loose(field1, field2, strict) ==
    /\ <<field1.ind1, field1.ind2, field1.val>>
           = <<field2.ind1, field2.ind2, field2.val>>
    /\ Range(field1.sf) = Range(field2.sf)

\* _compare_fields(field1, field2, strict)
compare_fields(field1, field2, strict) ==
    IF strict THEN Content(field1) = Content(field2)
    ELSE /\ <<field1.ind1, field1.ind2, field1.val>>
                = <<field2.ind1, field2.ind2, field2.val>>
         /\ Range(field1.sf) = Range(field2.sf)

\* The result is the returned pair: <<Some(global position), Some(local
\* position)>>, or <<None, None>>.
record_find_field(r, tag, field, strict) ==
    LET hits == {i \in 1..Len(Get(r, tag)) :
                    compare_fields(field, r[tag][i], strict)}
    IN  IF hits = {} THEN <<None, None>>
        ELSE <<Some(r[tag][SetMin(hits)].pos), Some(SetMin(hits) - 1)>>

----------------------------------------------------------------------------
(* The parser, _create_record_lxml.  A document is the sequence of its     *)
(* controlfield and datafield elements in document order; an attribute is  *)
(* None when the element does not carry it.                                *)

ControlElem(tag, text) ==
    [elem |-> "controlfield", tag |-> tag, ind1 |-> None, ind2 |-> None,
     subfields |-> <<>>, text |-> text]

DataElem(tag, ind1, ind2, subfields) ==
    [elem |-> "datafield", tag |-> tag, ind1 |-> ind1, ind2 |-> ind2,
     subfields |-> subfields, text |-> ""]

\* attrib.get(name, '!')
attrib_get(a) == IF a = None THEN "!" ELSE a[1]

\* the field a controlfield element yields (position not yet assigned)
controlfield_field(e) == MkField(<<>>, " ", " ", e.text, 0)

\* the field a datafield element yields (position not yet assigned)
datafield_field(e, keep_singletons) ==
    LET KeepSub(sub) == sub.text # "" \/ keep_singletons
        kept == SelectSeq(e.subfields, KeepSub)
    IN  MkField([i \in 1..Len(kept) |->
                    <<attrib_get(kept[i].code), kept[i].text>>],
                wash_indicator(attrib_get(e.ind1)),
                wash_indicator(attrib_get(e.ind2)),
                "", 0)

\* whether the parser makes a field of the element
is_emitted(e, keep_singletons) ==
    IF e.elem = "controlfield"
    THEN e.text # "" \/ keep_singletons
    ELSE datafield_field(e, keep_singletons).sf # <<>> \/ keep_singletons

\* faulty variant: the elements are taken in the order of the document
emitted_in_document_order(doc, keep_singletons) ==
    LET Emitted(e) == is_emitted(e, keep_singletons)
    IN  SelectSeq(doc, Emitted)

\* the elements the parser makes fields of, in the order it comes to them:
\* the loop over the controlfields, then the loop over the datafields
emitted_elements(doc, keep_singletons) ==
    LET IsControl(e) == e.elem = "controlfield"
                        /\ is_emitted(e, keep_singletons)
        IsData(e) == e.elem = "datafield" /\ is_emitted(e, keep_singletons)
    IN  SelectSeq(doc, IsControl) \o SelectSeq(doc, IsData)

\* the field an element yields (position not yet assigned)
element_field(e, keep_singletons) ==
    IF e.elem = "controlfield" THEN controlfield_field(e)
    ELSE datafield_field(e, keep_singletons)

create_record_lxml(doc, keep_singletons) ==
    LET elems == emitted_elements(doc, keep_singletons)
        \* the emitted fields in emission order; the index of a field is its
        \* field_position_global
        emitted == [i \in 1..Len(elems) |->
                      [tag |-> attrib_get(elems[i].tag),
                       field |-> [element_field(elems[i], keep_singletons)
                                    EXCEPT !.pos = i]]]
        OfTag(t) == LET Is(x) == x.tag = t
                        sel == SelectSeq(emitted, Is)
                    IN  [i \in 1..Len(sel) |-> sel[i].field]
    IN  [t \in {emitted[i].tag : i \in 1..Len(emitted)} |-> OfTag(t)]

\* _fields_sort_by_indicators(fields): the fields grouped by their
\* indicators, the groups in ascending order, the global positions of the
\* list dealt out again in their order
fields_sort_by_indicators(fields) ==
    LET cmp_ind(f, g) == IF f.ind1 # g.ind1 THEN cmp_str(f.ind1, g.ind1)
                         ELSE cmp_str(f.ind2, g.ind2)
        Before(j, i) == \/ cmp_ind(fields[j], fields[i]) < 0
                        \/ cmp_ind(fields[j], fields[i]) = 0 /\ j < i
        place(i) == 1 + Cardinality({j \in 1..Len(fields) : Before(j, i)})
    IN  [k \in 1..Len(fields) |->
            [fields[CHOOSE i \in 1..Len(fields) : place(i) = k]
                EXCEPT !.pos = fields[k].pos]]

\* _record_sort_by_indicators(record)
record_sort_by_indicators(r) ==
    [t \in DOMAIN r |-> fields_sort_by_indicators(r[t])]

\* the upper bound of the tags of the length of tag: '999' with a '0' in
\* front for every character beyond three
upper_bound(tag) ==
    [i \in 1..Max2(Len(StrChars(tag)), 3) |->
        IF i <= Len(StrChars(tag)) - 3 THEN "0" ELSE "9"]

\* '001' <= tag <= upper_bound or tag in ('FMT', 'FFT', 'BDR', 'BDM')
tag_in_range(tag) ==
    \/ /\ cmp_chars(<<"0", "0", "1">>, StrChars(tag)) <= 0
       /\ cmp_chars(StrChars(tag), upper_bound(tag)) <= 0
    \/ tag \in {"FMT", "FFT", "BDR", "BDM"}

\* the corrected fields of a tag
corrected_fields(fields) ==
    LET newsub(subfield) == IF subfield[1] = "!" THEN <<"", subfield[2]>>
                            ELSE subfield
    IN  [i \in 1..Len(fields) |->
            MkField([j \in 1..Len(fields[i].sf) |-> newsub(fields[i].sf[j])],
                    IF fields[i].ind1 = "!" THEN " " ELSE fields[i].ind1,
                    IF fields[i].ind2 = "!" THEN " " ELSE fields[i].ind2,
                    fields[i].val, fields[i].pos)]

\* the errors found in one field: 8 for a datafield without subfields, 3
\* for every subfield without a code, 4 and 5 for a missing indicator
field_errors(field) ==
    (IF field.sf = <<>> /\ field.val = "" THEN <<<<8, <<field.pos>>>>>>
     ELSE <<>>)
    \o LET Missing(subfield) == subfield[1] = "!"
           missing == SelectSeq(field.sf, Missing)
       IN  [j \in 1..Len(missing) |-> <<3, <<field.pos>>>>]
    \o (IF field.ind1 = "!" THEN <<<<4, <<field.pos>>>>>> ELSE <<>>)
    \o (IF field.ind2 = "!" THEN <<<<5, <<field.pos>>>>>> ELSE <<>>)

\* record['000'] = record.pop(tag)
relabelled(r, tag) ==
    [t \in (DOMAIN r \ {tag}) \cup {"000"} |->
        IF t = "000" THEN r[tag] ELSE r[t]]

\* one turn of the loop of _correct_record
correct_tag(r, tag) ==
    LET missing == tag = "!"
        bad == ~missing /\ ~tag_in_range(tag)
        r1 == IF missing \/ bad THEN relabelled(r, tag) ELSE r
        tag1 == IF missing \/ bad THEN "000" ELSE tag
        positions == [i \in 1..Len(r[tag]) |-> r[tag][i].pos]
    IN  [rec |-> [r1 EXCEPT ![tag1] = corrected_fields(r1[tag1])],
         errors |-> (IF missing THEN <<<<1, positions>>>>
                     ELSE IF bad THEN <<<<2, <<>>>>>> ELSE <<>>)
                    \o Concat([i \in 1..Len(r1[tag1]) |->
                                  field_errors(r1[tag1][i])])]

\* _correct_record(record), order being the list record.keys()
RECURSIVE correct_record(_, _)
correct_record(r, order) ==
    IF order = <<>> THEN [rec |-> r, errors |-> <<>>]
    ELSE LET first == correct_tag(r, Head(order))
             rest == correct_record(first.rec, Tail(order))
         IN  [rec |-> rest.rec, errors |-> first.errors \o rest.errors]

\* the record create_record has before it corrects it
parsed_record(doc, sort_fields_by_indicators, keep_singletons) ==
    IF sort_fields_by_indicators
    THEN record_sort_by_indicators(create_record_lxml(doc, keep_singletons))
    ELSE create_record_lxml(doc, keep_singletons)

\* create_record(marcxml, correct=correct,
\*               sort_fields_by_indicators=sort_fields_by_indicators,
\*               keep_singletons=keep_singletons): the record and the errors
\* it returns, order being the list of keys _correct_record goes through
create_record(doc, correct, sort_fields_by_indicators, keep_singletons, order) ==
    LET parsed == parsed_record(doc, sort_fields_by_indicators,
                                keep_singletons)
    IN  IF correct THEN correct_record(parsed, order)
        ELSE [rec |-> parsed, errors |-> <<>>]

CFG_BIBRECORD_KEEP_SINGLETONS == TRUE

----------------------------------------------------------------------------
(* The serializer, record_xml_output.  The text it writes is modelled by   *)
(* the document the XML reader makes of it: the elements in the order they *)
(* are written, with the attribute values and the text the reader decodes  *)
(* from the characters written.                                            *)

\* the strings of the model, and the string of a sequence of characters
KnownStrings ==
    {"", "x", "y", "xy", "100", "245", "500", "555", "FMT", "5%%", "%%%",
     " ", "!", "_", "A", "B", "a", "b", "v", "000", "001", "005", "&"}

CharsStr(cs) == CHOOSE s \in KnownStrings : StrChars(s) = cs

\* escape_for_xml: the five special characters of XML become entities
RECURSIVE escape_for_xml(_)
escape_for_xml(cs) ==
    IF cs = <<>> THEN <<>>
    ELSE (CASE Head(cs) = "&" -> <<"&", "a", "m", "p", ";">>
            [] Head(cs) = "<" -> <<"&", "l", "t", ";">>
            [] Head(cs) = ">" -> <<"&", "g", "t", ";">>
            [] Head(cs) = "\"" -> <<"&", "q", "u", "o", "t", ";">>
            [] Head(cs) = "'" -> <<"&", "a", "p", "o", "s", ";">>
            [] OTHER -> <<Head(cs)>>)
         \o escape_for_xml(Tail(cs))

\* the character an entity stands for
entity_char(name) ==
    CASE name = <<"a", "m", "p">> -> "&"
      [] name = <<"l", "t">> -> "<"
      [] name = <<"g", "t">> -> ">"
      [] name = <<"q", "u", "o", "t">> -> "\""
      [] name = <<"a", "p", "o", "s">> -> "'"

\* the characters the XML reader gives for the characters written in an
\* attribute value or in the text of an element
RECURSIVE xml_decoded(_)
xml_decoded(cs) ==
    IF cs = <<>> THEN <<>>
    ELSE IF Head(cs) = "&"
    THEN LET semi == SetMin({i \in 1..Len(cs) : cs[i] = ";"})
         IN  <<entity_char(SubSeq(cs, 2, semi - 1))>>
             \o xml_decoded(SubSeq(cs, semi + 1, Len(cs)))
    ELSE <<Head(cs)>> \o xml_decoded(Tail(cs))

\* an attribute written as name="%s"
written_attribute(s) == Some(CharsStr(xml_decoded(StrChars(s))))

\* a text written as escape_for_xml(s)
written_text(s) == CharsStr(xml_decoded(escape_for_xml(StrChars(s))))

\* _subfield_xml_output(subfield)
subfield_xml_output(subfield) ==
    [code |-> written_attribute(subfield[1]),
     text |-> written_text(subfield[2])]

\* field_xml_output(field, tag)
field_xml_output(field, tag) ==
    IF field.val # ""
    THEN ControlElem(written_attribute(tag), written_text(field.val))
    ELSE DataElem(written_attribute(tag), written_attribute(field.ind1),
                  written_attribute(field.ind2),
                  [i \in 1..Len(field.sf) |-> subfield_xml_output(field.sf[i])])

\* faulty variant: the fields are written in the order of the scan
fields_in_scan_order_kept(fields) ==
    fields

\* record_order_fields(fields) with _order_by_ord: a stable sort of the
\* (tag, field) pairs by the global position of the field
record_order_fields(fields) ==
    LET Before(j, i) ==
            \/ fields[j].field.pos < fields[i].field.pos
            \/ fields[j].field.pos = fields[i].field.pos /\ j < i
        place(i) == 1 + Cardinality({j \in 1..Len(fields) : Before(j, i)})
    IN  [k \in 1..Len(fields) |->
            fields[CHOOSE i \in 1..Len(fields) : place(i) = k]]

\* the tags record_xml_output writes for the argument tags (a set; the empty
\* set when the argument is omitted)
written_tags(tags) ==
    IF tags # {} /\ "001" \notin tags THEN tags \cup {"001"} ELSE tags

\* record_xml_output(rec, tags), order being the order in which the
\* dictionary yields its tags
record_xml_output(r, order, tags) ==
    LET OfTag(tag) ==
            IF written_tags(tags) = {} \/ tag \in written_tags(tags)
            THEN [i \in 1..Len(r[tag]) |-> [tag |-> tag, field |-> r[tag][i]]]
            ELSE <<>>
        fields == Concat([k \in 1..Len(order) |-> OfTag(order[k])])
        ordered == record_order_fields(fields)
    IN  [i \in 1..Len(ordered) |->
            field_xml_output(ordered[i].field, ordered[i].tag)]

----------------------------------------------------------------------------
(* The comparator, records_identical.  Python 2 orders strings by their    *)
(* bytes and tuples and lists lexicographically; sorted() is stable.       *)

\* cmp(a, b) of two subfields (code, value)
cmp_subfield(a, b) ==
    IF a[1] # b[1] THEN cmp_str(a[1], b[1]) ELSE cmp_str(a[2], b[2])

\* cmp(a, b) of two lists of subfields
RECURSIVE cmp_subfields(_, _)
cmp_subfields(a, b) ==
    IF a = <<>> THEN (IF b = <<>> THEN 0 ELSE -1)
    ELSE IF b = <<>> THEN 1
    ELSE IF Head(a) # Head(b) THEN cmp_subfield(Head(a), Head(b))
    ELSE cmp_subfields(Tail(a), Tail(b))

\* faulty variant: the global position comes before the indicators
cmp_sort_key_position_first(f, g, ignore_field_order) ==
    IF ~ignore_field_order /\ f.pos # g.pos THEN cmp_int(f.pos, g.pos)
    ELSE IF f.ind1 # g.ind1 THEN cmp_str(f.ind1, g.ind1)
    ELSE IF f.ind2 # g.ind2 THEN cmp_str(f.ind2, g.ind2)
    ELSE IF f.val # g.val THEN cmp_str(f.val, g.val)
    ELSE cmp_subfields(f.sf, g.sf)

\* cmp of the sort keys of two fields:
\*   (elem[1], elem[2], elem[3], elem[0]) when the field order is ignored,
\*   (elem[1], elem[2], elem[4], elem[3], elem[0]) otherwise
cmp_sort_key(f, g, ignore_field_order) ==
    IF f.ind1 # g.ind1 THEN cmp_str(f.ind1, g.ind1)
    ELSE IF f.ind2 # g.ind2 THEN cmp_str(f.ind2, g.ind2)
    ELSE IF ~ignore_field_order /\ f.pos # g.pos THEN cmp_int(f.pos, g.pos)
    ELSE IF f.val # g.val THEN cmp_str(f.val, g.val)
    ELSE cmp_subfields(f.sf, g.sf)

\* faulty variant: the fields are left in the order of the list
unsorted_fields(fields, ignore_field_order) ==
    fields

\* sorted(fields, key=...): stable, an element goes after the elements of
\* lower key and after the earlier elements of equal key
sorted_fields(fields, ignore_field_order) ==
    LET Before(j, i) ==
            \/ cmp_sort_key(fields[j], fields[i], ignore_field_order) < 0
            \/ /\ cmp_sort_key(fields[j], fields[i], ignore_field_order) = 0
               /\ j < i
        place(i) == 1 + Cardinality({j \in 1..Len(fields) : Before(j, i)})
    IN  [k \in 1..Len(fields) |->
            fields[CHOOSE i \in 1..Len(fields) : place(i) = k]]

\* how many times the subfield x occurs in the list of subfields s
subfield_count(s, x) == Cardinality({i \in 1..Len(s) : s[i] = x})

\* the comparison of two fields of the same rank
fields_differ(field1, field2, ignore_subfield_order, ignore_duplicate_subfields) ==
    IF ignore_duplicate_subfields
    THEN \/ <<field1.ind1, field1.ind2, field1.val>>
                # <<field2.ind1, field2.ind2, field2.val>>
         \/ Range(field1.sf) # Range(field2.sf)
    ELSE IF ignore_subfield_order
    THEN \/ <<field1.ind1, field1.ind2, field1.val>>
                # <<field2.ind1, field2.ind2, field2.val>>
         \* sorted(field1[0]) != sorted(field2[0])
         \/ \E x \in Range(field1.sf) \cup Range(field2.sf) :
                subfield_count(field1.sf, x) # subfield_count(field2.sf, x)
    ELSE Content(field1) # Content(field2)

\* key.startswith('00')
startswith_00(key) ==
    Len(StrChars(key)) >= 2 /\ SubSeq(StrChars(key), 1, 2) = <<"0", "0">>

\* the flags of records_identical, with their default values
DefaultFlags ==
    [skip_005 |-> TRUE, ignore_field_order |-> FALSE,
     ignore_subfield_order |-> FALSE, ignore_duplicate_subfields |-> FALSE,
     ignore_duplicate_controlfields |-> FALSE]

records_identical(rec1, rec2, flags) ==
    LET skipped == IF flags.skip_005 THEN {"005"} ELSE {}
        rec1_keys == DOMAIN rec1 \ skipped
        rec2_keys == DOMAIN rec2 \ skipped
        values(fields) == {fields[i].val : i \in 1..Len(fields)}
        SameFields(key) ==
            IF flags.ignore_duplicate_controlfields /\ startswith_00(key)
            THEN values(rec1[key]) = values(rec2[key])
            ELSE /\ Len(rec1[key]) = Len(rec2[key])
                 /\ LET s1 == sorted_fields(rec1[key],
                                            flags.ignore_field_order)
                        s2 == sorted_fields(rec2[key],
                                            flags.ignore_field_order)
                    IN  \A i \in 1..Len(s1) :
                            ~fields_differ(s1[i], s2[i],
                                           flags.ignore_subfield_order,
                                           flags.ignore_duplicate_subfields)
    IN  /\ rec1_keys = rec2_keys
        /\ \A key \in rec1_keys : SameFields(key)

----------------------------------------------------------------------------
(* Field construction and cleaning: create_field, record_delete_subfield,  *)
(* record_strip_empty_fields.                                              *)

\* _check_field_validity(field): the tests are on the types of the five
\* elements and of the subfields, which the fields of the model all have
check_field_validity(field) ==
    /\ DOMAIN field = {"sf", "ind1", "ind2", "val", "pos"}
    /\ \A i \in 1..Len(field.sf) : Len(field.sf[i]) = 2

\* create_field(subfields, ind1, ind2, controlfield_value, global_position):
\* the field, or the error of _check_field_validity
create_field(subfields, ind1_, ind2_, controlfield_value, global_position) ==
    LET field == MkField(subfields, wash_indicator(ind1_),
                         wash_indicator(ind2_), controlfield_value,
                         global_position)
    IN  IF check_field_validity(field) THEN [exc |-> "", field |-> Some(field)]
        ELSE [exc |-> FieldError, field |-> None]

\* record_delete_subfield(rec, tag, subfield_code, ind1, ind2)
record_delete_subfield(r, tag, subfield_code, ind1_, ind2_) ==
    LET ind1 == wash_indicator(ind1_)
        ind2 == wash_indicator(ind2_)
        Kept(subfield) == subfield_code # subfield[1]
        cleaned(field) ==
            IF field.ind1 = ind1 /\ field.ind2 = ind2
            THEN [field EXCEPT !.sf = SelectSeq(field.sf, Kept)]
            ELSE field
    IN  IF tag \in DOMAIN r
        THEN [r EXCEPT ![tag] = [i \in 1..Len(r[tag]) |-> cleaned(r[tag][i])]]
        ELSE r

\* s.strip() of a string without inner blanks: the blanks at its two ends
\* are dropped
str_strip(s) ==
    LET NotBlank(c) == c # " "
    IN  CharsStr(SelectSeq(StrChars(s), NotBlank))

\* the fields record_strip_empty_fields keeps of the fields of a tag: the
\* subfields with a value, stripped; a field is kept when it has such a
\* subfield, and made anew with create_field(subfields, field[1], field[2],
\* field[3]), whose global_position is -1 by default
stripped_fields(fields) ==
    LET HasValue(subfield) == subfield[2] # ""
        subfields(field) ==
            LET kept == SelectSeq(field.sf, HasValue)
            IN  [j \in 1..Len(kept) |-> <<kept[j][1], str_strip(kept[j][2])>>]
        Kept(field) == Len(subfields(field)) > 0
        kept_fields == SelectSeq(fields, Kept)
    IN  [i \in 1..Len(kept_fields) |->
            create_field(subfields(kept_fields[i]), kept_fields[i].ind1,
                         kept_fields[i].ind2, kept_fields[i].val,
                         -1).field[1]]

\* record_strip_empty_fields(rec, tag) for a tag
strip_tag(r, tag) ==
    IF tag \notin DOMAIN r THEN r
    ELSE IF startswith_00(tag)
    THEN (IF Len(r[tag]) = 0 \/ r[tag][1].val = "" THEN Del(r, tag) ELSE r)
    ELSE IF Len(stripped_fields(r[tag])) > 0
    THEN Put(r, tag, stripped_fields(r[tag]))
    ELSE Del(r, tag)

RECURSIVE strip_tags(_, _)
strip_tags(r, tags) ==
    IF tags = <<>> THEN r ELSE strip_tags(strip_tag(r, Head(tags)), Tail(tags))

\* record_strip_empty_fields(rec, tag): tag is None for the whole record,
\* order being the list rec.keys()
record_strip_empty_fields(r, order, tag) ==
    IF tag = None THEN strip_tags(r, order) ELSE strip_tag(r, tag[1])

----------------------------------------------------------------------------
(* Inputs *)

SubA == <<"a", "x">>
SubB == <<"b", "y">>

\* the elements of the documents the records of the model are parsed from
TwoSubData(TagSet) ==
    {DataElem(Some(t), Some(" "), Some(" "),
              <<[code |-> Some("a"), text |-> "x"],
                [code |-> Some("b"), text |-> "y"]>>) : t \in TagSet}

SwappedData(TagSet) ==
    {DataElem(Some(t), Some(" "), Some(" "),
              <<[code |-> Some("b"), text |-> "y"],
                [code |-> Some("a"), text |-> "x"]>>) : t \in TagSet}

\* datafields for the subfield filters: code a twice, code a once, no code a
FilterData(TagSet) ==
    {DataElem(Some(t), Some(" "), Some(" "), subs) :
        t \in TagSet,
        subs \in { <<[code |-> Some("a"), text |-> "x"],
                     [code |-> Some("a"), text |-> "y"]>>,
                   <<[code |-> Some("a"), text |-> "xy"],
                     [code |-> Some("b"), text |-> "x"]>>,
                   <<[code |-> Some("b"), text |-> "y"]>> }}

BlankData(TagSet) ==
    {DataElem(Some(t), Some(" "), Some(" "),
              <<[code |-> Some("a"), text |-> "x"]>>) : t \in TagSet}

IndData(TagSet) ==
    {DataElem(Some(t), Some("A"), Some("B"),
              <<[code |-> Some("b"), text |-> "y"]>>) : t \in TagSet}
    \cup {DataElem(Some(t), Some("A"), Some("_"), <<>>) : t \in TagSet}

Control(TagSet) == {ControlElem(Some(t), "v") : t \in TagSet}

Docs(Elems) == UNION {[1..k -> Elems] : k \in 0..MaxFields}

\* the datafields of the documents the compared records are parsed from:
\* three of blank indicators whose subfield lists are in ascending order, the
\* last one being the first one with its subfields swapped, and one with
\* indicators
ComparedElems ==
    TwoSubData({"100"})
    \cup {DataElem(Some("100"), Some(" "), Some(" "),
                   <<[code |-> Some("a"), text |-> "y"]>>)}
    \cup SwappedData({"100"})
    \cup {DataElem(Some("100"), Some("A"), Some("B"),
                   <<[code |-> Some("b"), text |-> "y"]>>)}

MaxCompared == 2

\* up to MaxCompared datafields, with or without a timestamp in front
ComparedDocs ==
    LET datas == UNION {[1..k -> ComparedElems] : k \in 0..MaxCompared}
    IN  datas \cup {<<ControlElem(Some("005"), "v")>> \o d : d \in datas}

ComparedRecords ==
    {create_record_lxml(d, CFG_BIBRECORD_KEEP_SINGLETONS) : d \in ComparedDocs}

\* every combination of the three tolerances of the datafields, and every
\* combination of the two flags of the controlfields
CompareFlags ==
    {[DefaultFlags EXCEPT !.ignore_field_order = a,
                          !.ignore_subfield_order = b,
                          !.ignore_duplicate_subfields = c] :
        a \in BOOLEAN, b \in BOOLEAN, c \in BOOLEAN}
    \cup {[DefaultFlags EXCEPT !.skip_005 = a,
                               !.ignore_duplicate_controlfields = b] :
             a \in BOOLEAN, b \in BOOLEAN}

\* the elements of the documents the serialized records are parsed from:
\* controlfields with and without a value and without a tag, a datafield with
\* no attribute but its tag, and a plain datafield
SerializedElems ==
    {ControlElem(Some("001"), text) : text \in {"", "v", "&"}}
    \cup {ControlElem(None, "v")}
    \cup {DataElem(Some("100"), None, None,
                   <<[code |-> None, text |-> "&"]>>)}
    \cup BlankData({"245"})

\* the elements of the documents create_record is called on: controlfields
\* and datafields without a tag, with the dummy tag and with a tag out of
\* range, a datafield that lacks an indicator and a subfield code, one with
\* an empty subfield, and a regular one with indicators
CreatedElems ==
    {ControlElem(None, "v"), ControlElem(Some("000"), "v"),
     ControlElem(Some("001"), "")}
    \cup {DataElem(None, Some("A"), None,
                   <<[code |-> None, text |-> "x"]>>)}
    \cup {DataElem(Some("a"), Some("_"), Some(" "),
                   <<[code |-> Some("a"), text |-> ""]>>)}
    \cup IndData({"100"})

\* the indicators of the calls that wash them: a blank, its two other
\* spellings, and a value
WashedInd1 == {" ", "", "_", "A"}
WashedInd2 == {" ", "", "_", "B"}

\* (controlfield_value, subfields) of the fields made with these indicators
WashedContents == {<<"", <<SubA>>>>, <<"v", <<>>>>}

\* the elements of the documents the stripped records are parsed from:
\* datafields with a subfield of a value, of no value and of a blank value,
\* a datafield without subfields, controlfields with and without a value
StrippedElems ==
    BlankData({"100"})
    \cup {DataElem(Some("100"), Some("A"), Some("B"),
                   <<[code |-> Some("b"), text |-> "y"],
                     [code |-> Some("a"), text |-> ""]>>)}
    \cup {DataElem(Some("245"), Some(" "), Some(" "),
                   <<[code |-> Some("a"), text |-> " "]>>)}
    \cup {DataElem(Some("245"), Some(" "), Some(" "), <<>>)}
    \cup {ControlElem(Some("001"), text) : text \in {"", "v"}}

\* the elements of the documents of the first-value lookups: a datafield
\* whose first subfield has no value, datafields with and without
\* indicators and subfields, and a field with a value
FirstValueElems ==
    {DataElem(Some("100"), Some(" "), Some(" "),
              <<[code |-> Some("a"), text |-> ""],
                [code |-> Some("a"), text |-> "x"]>>)}
    \cup BlankData({"100"}) \cup IndData({"100"}) \cup Control({"100"})

\* the tags arguments of record_xml_output; {} is the omitted argument
TagFilters == {{}, {"100"}, {"001"}, {"100", "245"}}

\* (ind1, ind2, controlfield_value, subfields) of the record_add_field calls
AddArgs ==
    { <<" ", " ", "", <<SubA>> >>,
      <<"_", "", "v", <<>> >>,
      <<"A", " ", "v", <<>> >>,
      <<" ", " ", "v", <<SubA>> >> }

\* (ind1, ind2) of the record_delete_field calls
DelInds == { <<" ", " ">>, <<"A", "B">> }

Positions == 1..MaxPos

\* the global positions the operations built on record_get_field are called
\* with
AddrPositions == 0..MaxPos

\* the subfield indices the subfield-level operations are called with
SubPositions == 0..MaxSubfields

\* (subfield_code, value) of the subfields the subfield-level operations put
\* into a field
NewSubfields == {SubB}
Locals == 0..MaxFields

\* the new_field of the record_replace_field calls
NewFields == {MkField(<<SubB>>, "A", "B", "", 1)}

\* the record of the example in the documentation of record_get_field_value,
\* its last field with the subfield a=val5
Example100 == <<MkField(<<<<"a", "val1">>>>, "C", "5", "", 1)>>

Example555 ==
    << MkField(<<<<"a", "val2">>>>, "A", "B", "", 2),
       MkField(<<>>, "A", "B", "val3", 3),
       MkField(<<<<"a", "val4">>>>, " ", " ", "", 4),
       MkField(<<<<"a", "val5">>>>, "A", " ", "", 5) >>

\* the example record cut down to the fields whose global positions are in S
ExamplePart(S) ==
    LET In(f) == f.pos \in S
        all == [t \in {"100", "555"} |->
                  SelectSeq(IF t = "100" THEN Example100 ELSE Example555, In)]
    IN  [t \in {u \in {"100", "555"} : all[u] # <<>>} |-> all[t]]

\* the selectors of the lookups
LookupTags == {"100", "555", "5%%", "%%%"}
LookupInd1 == {"A", "", "_", "%"}
LookupInd2 == {"B", "", "%"}
LookupCodes == {"", "a", "%"}

\* the arguments of the filtered lookups
FilterCodes == {"a", "b", "%"}
FilterValues == {"", "x", "y", "xy"}
FilterModes == {"e", "s"}

\* the prototypes record_find_field is called with
Prototypes ==
    { MkField(<<SubA, SubB>>, " ", " ", "", 1),
      MkField(<<SubB, SubA>>, " ", " ", "", 1),
      MkField(<<SubA>>, " ", " ", "", 1),
      MkField(<<SubA, SubA>>, " ", " ", "", 1),
      MkField(<<SubA>>, "A", " ", "", 1) }

\* the tags the operations built on record_get_field are called with
AddrTags == {"100", "245"}

----------------------------------------------------------------------------
(* State.  rec is the record; after a call returns (pc = "returned") old   *)
(* is the record the call was made on and last holds the call's arguments  *)
(* and what it returned.  The caller then goes on (Continue).              *)

NoCall ==
    [op |-> "none", tag |-> "", ind1 |-> "", ind2 |-> "", val |-> "",
     sf |-> <<>>, fpg |-> None, fpl |-> None, sel |-> None,
     new_field |-> None, ret |-> 0, out |-> <<>>, kind |-> "", exc |-> "",
     subfield_position |-> None, new_subfield_position |-> None,
     code |-> "", filter_subfield_code |-> "", filter_subfield_value |-> "",
     filter_subfield_mode |-> "", strict |-> FALSE, order |-> <<>>,
     value |-> "", rec2 |-> EmptyRec, flags |-> DefaultFlags,
     same |-> FALSE, tags |-> {}, correct |-> FALSE,
     sort_fields_by_indicators |-> FALSE, keep_singletons |-> TRUE,
     errors |-> <<>>]

Returned(r, call) ==
    /\ rec' = r
    /\ old' = rec
    /\ last' = call
    /\ pc' = "returned"

InBounds(r) ==
    /\ NumFields(r) <= MaxFields
    /\ AllPositions(r) \subseteq 1..MaxPos

SubfieldsInBounds(r) ==
    \A t \in DOMAIN r : \A i \in 1..Len(r[t]) : Len(r[t][i].sf) <= MaxSubfields

CallAddField(tag, a, fpg, fpl) ==
    LET res == record_add_field(rec, tag, a[1], a[2], a[3], a[4], fpg, fpl)
    IN  /\ pc = "ready"
        /\ NumFields(rec) < MaxFields
        /\ InBounds(res.rec)
        /\ Returned(res.rec,
                    [NoCall EXCEPT !.op = "record_add_field", !.tag = tag,
                                   !.ind1 = a[1], !.ind2 = a[2], !.val = a[3],
                                   !.sf = a[4], !.fpg = fpg, !.fpl = fpl,
                                   !.ret = res.ret])

AddFieldNoPosition ==
    \E tag \in Tags, a \in AddArgs : CallAddField(tag, a, None, None)

AddFieldLocal ==
    \E tag \in Tags, a \in AddArgs, p \in Locals :
        CallAddField(tag, a, None, Some(p))

AddFieldGlobal ==
    \E tag \in Tags, a \in AddArgs, g \in Positions :
        CallAddField(tag, a, Some(g), None)

CallDeleteField(tag, ind, fpg, fpl) ==
    LET res == record_delete_field(rec, tag, ind[1], ind[2], fpg, fpl)
    IN  /\ pc = "ready"
        /\ Returned(res.rec,
                    [NoCall EXCEPT !.op = "record_delete_field", !.tag = tag,
                                   !.ind1 = ind[1], !.ind2 = ind[2],
                                   !.fpg = fpg, !.fpl = fpl,
                                   !.out = res.ret, !.kind = res.kind])

DeleteFieldByIndicators ==
    \E tag \in Tags, ind \in DelInds : CallDeleteField(tag, ind, None, None)

DeleteFieldGlobal ==
    \E tag \in Tags, ind \in DelInds, g \in Positions :
        CallDeleteField(tag, ind, Some(g), None)

DeleteFieldLocal ==
    \E tag \in Tags, p \in 0..(MaxFields - 1) :
        CallDeleteField(tag, <<" ", " ">>, None, Some(p))

DeleteFields ==
    \E tag \in Tags, sel \in {None} \cup {Some(S) : S \in SUBSET Locals} :
        LET res == record_delete_fields(rec, tag, sel)
        IN  /\ pc = "ready"
            /\ Returned(res.rec,
                        [NoCall EXCEPT !.op = "record_delete_fields",
                                       !.tag = tag, !.sel = sel,
                                       !.out = res.ret])

MoveFields ==
    \E tag \in Tags, sel \in {Some(S) : S \in SUBSET Locals},
       fpl \in {None} \cup {Some(p) : p \in Locals} :
        LET res == record_move_fields(rec, tag, sel, fpl)
        IN  /\ pc = "ready"
            /\ InBounds(res.rec)
            /\ Returned(res.rec,
                        [NoCall EXCEPT !.op = "record_move_fields",
                                       !.tag = tag, !.sel = sel, !.fpl = fpl])

DeleteFieldBoth ==
    \E tag \in Tags, g \in Positions, p \in 0..(MaxFields - 1) :
        CallDeleteField(tag, <<" ", " ">>, Some(g), Some(p))

CallDeleteSubfieldFrom(tag, sp, fpg, fpl) ==
    LET res == record_delete_subfield_from(rec, tag, sp, fpg, fpl)
    IN  /\ pc = "ready"
        /\ Returned(res.rec,
                    [NoCall EXCEPT !.op = "record_delete_subfield_from",
                                   !.tag = tag, !.subfield_position = Some(sp),
                                   !.fpg = fpg, !.fpl = fpl,
                                   !.exc = res.exc])

DeleteSubfieldFrom ==
    \E tag \in AddrTags, sp \in SubPositions :
        \/ \E g \in AddrPositions :
              CallDeleteSubfieldFrom(tag, sp, Some(g), None)
        \/ \E p \in Locals : CallDeleteSubfieldFrom(tag, sp, None, Some(p))

CallReplaceField(tag, f, fpg, fpl) ==
    LET res == record_replace_field(rec, tag, f, fpg, fpl)
    IN  /\ pc = "ready"
        /\ Returned(res.rec,
                    [NoCall EXCEPT !.op = "record_replace_field", !.tag = tag,
                                   !.new_field = Some(f), !.fpg = fpg,
                                   !.fpl = fpl, !.exc = res.exc])

ReplaceField ==
    \E tag \in AddrTags, f \in NewFields :
        \/ \E g \in AddrPositions : CallReplaceField(tag, f, Some(g), None)
        \/ \E p \in Locals : CallReplaceField(tag, f, None, Some(p))

CallAddSubfieldInto(tag, sub, sp, fpg, fpl) ==
    LET res == record_add_subfield_into(rec, tag, sub[1], sub[2], sp, fpg,
                                        fpl)
    IN  /\ pc = "ready"
        /\ SubfieldsInBounds(res.rec)
        /\ Returned(res.rec,
                    [NoCall EXCEPT !.op = "record_add_subfield_into",
                                   !.tag = tag, !.sf = <<sub>>,
                                   !.subfield_position = sp,
                                   !.fpg = fpg, !.fpl = fpl,
                                   !.exc = res.exc])

AddSubfieldInto ==
    \E tag \in AddrTags, sub \in NewSubfields,
       sp \in {None} \cup {Some(i) : i \in SubPositions} :
        \/ \E g \in AddrPositions :
              CallAddSubfieldInto(tag, sub, sp, Some(g), None)
        \/ \E p \in Locals : CallAddSubfieldInto(tag, sub, sp, None, Some(p))

CallModifySubfield(tag, sub, sp, fpg, fpl) ==
    LET res == record_modify_subfield(rec, tag, sub[1], sub[2], sp, fpg, fpl)
    IN  /\ pc = "ready"
        /\ Returned(res.rec,
                    [NoCall EXCEPT !.op = "record_modify_subfield",
                                   !.tag = tag, !.sf = <<sub>>,
                                   !.subfield_position = Some(sp),
                                   !.fpg = fpg, !.fpl = fpl,
                                   !.exc = res.exc])

ModifySubfield ==
    \E tag \in AddrTags, sub \in NewSubfields, sp \in SubPositions :
        \/ \E g \in AddrPositions :
              CallModifySubfield(tag, sub, sp, Some(g), None)
        \/ \E p \in Locals : CallModifySubfield(tag, sub, sp, None, Some(p))

CallMoveSubfield(tag, sp, np, fpg, fpl) ==
    LET res == record_move_subfield(rec, tag, sp, np, fpg, fpl)
    IN  /\ pc = "ready"
        /\ Returned(res.rec,
                    [NoCall EXCEPT !.op = "record_move_subfield",
                                   !.tag = tag,
                                   !.subfield_position = Some(sp),
                                   !.new_subfield_position = Some(np),
                                   !.fpg = fpg, !.fpl = fpl,
                                   !.exc = res.exc])

MoveSubfield ==
    \E tag \in AddrTags, sp \in SubPositions, np \in SubPositions :
        \/ \E g \in AddrPositions :
              CallMoveSubfield(tag, sp, np, Some(g), None)
        \/ \E p \in Locals : CallMoveSubfield(tag, sp, np, None, Some(p))

\* a query returns and leaves the record alone
GetFieldInstances ==
    \E order \in Orders(rec), tag \in LookupTags \cup {""},
       ind1 \in LookupInd1, ind2 \in LookupInd2 :
        LET res == record_get_field_instances(rec, order, tag, ind1, ind2)
        IN  /\ pc = "ready"
            /\ Returned(rec,
                        [NoCall EXCEPT !.op = "record_get_field_instances",
                                       !.order = order, !.tag = tag,
                                       !.ind1 = ind1, !.ind2 = ind2,
                                       !.out = res.out, !.kind = res.kind])

GetFieldValue ==
    \E order \in Orders(rec), tag \in LookupTags,
       ind1 \in LookupInd1, ind2 \in LookupInd2, code \in LookupCodes :
        /\ pc = "ready"
        /\ Returned(rec,
                    [NoCall EXCEPT !.op = "record_get_field_value",
                                   !.order = order, !.tag = tag,
                                   !.ind1 = ind1, !.ind2 = ind2,
                                   !.code = code,
                                   !.value = record_get_field_value(
                                                 rec, order, tag, ind1, ind2,
                                                 code)])

GetFieldValues ==
    \E order \in Orders(rec), tag \in {"100", "245"}, code \in FilterCodes,
       fcode \in {"", "a"}, fvalue \in FilterValues, fmode \in FilterModes :
        /\ pc = "ready"
        /\ Returned(rec,
                    [NoCall EXCEPT !.op = "record_get_field_values",
                                   !.order = order, !.tag = tag,
                                   !.ind1 = " ", !.ind2 = " ",
                                   !.code = code,
                                   !.filter_subfield_code = fcode,
                                   !.filter_subfield_value = fvalue,
                                   !.filter_subfield_mode = fmode,
                                   !.out = record_get_field_values(
                                               rec, order, tag, " ", " ",
                                               code, fcode, fvalue, fmode)])

\* filter_field_instances(record_get_field_instances(rec, tag, '%', '%'), ...)
FilterFieldInstances ==
    \E order \in Orders(rec), tag \in {"100", "245"},
       fvalue \in FilterValues, fmode \in FilterModes :
        /\ pc = "ready"
        /\ Returned(rec,
                    [NoCall EXCEPT !.op = "filter_field_instances",
                                   !.order = order, !.tag = tag,
                                   !.ind1 = "%", !.ind2 = "%",
                                   !.filter_subfield_code = "a",
                                   !.filter_subfield_value = fvalue,
                                   !.filter_subfield_mode = fmode,
                                   !.out = filter_field_instances(
                                               record_get_field_instances(
                                                   rec, order, tag, "%",
                                                   "%").out,
                                               "a", fvalue, fmode)])

FindField ==
    \E tag \in {"100", "245", "500"}, field \in Prototypes,
       strict \in BOOLEAN :
        /\ pc = "ready"
        /\ Returned(rec,
                    [NoCall EXCEPT !.op = "record_find_field", !.tag = tag,
                                   !.new_field = Some(field),
                                   !.strict = strict,
                                   !.out = record_find_field(rec, tag, field,
                                                             strict)])

CreateField ==
    /\ pc = "ready"
    /\ \E ind1 \in WashedInd1, ind2 \in WashedInd2, c \in WashedContents :
           LET res == create_field(c[2], ind1, ind2, c[1], -1)
           IN  Returned(rec,
                        [NoCall EXCEPT !.op = "create_field",
                                       !.ind1 = ind1, !.ind2 = ind2,
                                       !.val = c[1], !.sf = c[2],
                                       !.new_field = res.field,
                                       !.exc = res.exc])

WashedAddField ==
    \E ind1 \in WashedInd1, ind2 \in WashedInd2, c \in WashedContents :
        CallAddField("100", <<ind1, ind2, c[1], c[2]>>, None, None)

WashedDeleteField ==
    \E ind1 \in WashedInd1, ind2 \in WashedInd2 :
        CallDeleteField("100", <<ind1, ind2>>, None, None)

DeleteSubfield ==
    /\ pc = "ready"
    /\ \E ind1 \in WashedInd1, ind2 \in WashedInd2, code \in {"a", "b"} :
           Returned(record_delete_subfield(rec, "100", code, ind1, ind2),
                    [NoCall EXCEPT !.op = "record_delete_subfield",
                                   !.tag = "100", !.code = code,
                                   !.ind1 = ind1, !.ind2 = ind2])

WashedGetFieldInstances ==
    /\ pc = "ready"
    /\ \E order \in Orders(rec), ind1 \in WashedInd1, ind2 \in WashedInd2 :
           LET res == record_get_field_instances(rec, order, "100", ind1,
                                                 ind2)
           IN  Returned(rec,
                        [NoCall EXCEPT !.op = "record_get_field_instances",
                                       !.order = order, !.tag = "100",
                                       !.ind1 = ind1, !.ind2 = ind2,
                                       !.out = res.out, !.kind = res.kind])

WashedGetFieldValue ==
    /\ pc = "ready"
    /\ \E order \in Orders(rec), ind1 \in WashedInd1, ind2 \in WashedInd2,
          code \in {"", "a"} :
           Returned(rec,
                    [NoCall EXCEPT !.op = "record_get_field_value",
                                   !.order = order, !.tag = "100",
                                   !.ind1 = ind1, !.ind2 = ind2,
                                   !.code = code,
                                   !.value = record_get_field_value(
                                                 rec, order, "100", ind1,
                                                 ind2, code)])

WashedGetFieldValues ==
    /\ pc = "ready"
    /\ \E order \in Orders(rec), ind1 \in WashedInd1, ind2 \in WashedInd2,
          code \in {"", "a"} :
           Returned(rec,
                    [NoCall EXCEPT !.op = "record_get_field_values",
                                   !.order = order, !.tag = "100",
                                   !.ind1 = ind1, !.ind2 = ind2,
                                   !.code = code,
                                   !.out = record_get_field_values(
                                               rec, order, "100", ind1, ind2,
                                               code, "", "", "e")])

StripEmptyFields ==
    /\ pc = "ready"
    /\ \E order \in Orders(rec),
          tag \in {None} \cup {Some(t) : t \in {"001", "100", "245"}} :
           Returned(record_strip_empty_fields(rec, order, tag),
                    [NoCall EXCEPT !.op = "record_strip_empty_fields",
                                   !.order = order, !.sel = tag])

RecordsIdentical ==
    /\ pc = "ready"
    /\ \E rec2 \in ComparedRecords, flags \in CompareFlags :
           /\ Returned(rec,
                       [NoCall EXCEPT !.op = "records_identical",
                                      !.rec2 = rec2, !.flags = flags,
                                      !.same = records_identical(rec, rec2,
                                                                 flags)])

XmlOutput ==
    /\ pc = "ready"
    /\ \E order \in Orders(rec), tags \in TagFilters :
           /\ Returned(rec,
                       [NoCall EXCEPT !.op = "record_xml_output",
                                      !.order = order, !.tags = tags,
                                      !.out = record_xml_output(rec, order,
                                                                tags)])

\* records_identical(rec, create_record(record_xml_output(rec))[0])
RoundTrip ==
    /\ pc = "ready"
    /\ \E order \in Orders(rec) :
           /\ LET xml == record_xml_output(rec, order, {})
                  rec2 == create_record_lxml(xml, CFG_BIBRECORD_KEEP_SINGLETONS)
              IN  Returned(rec,
                           [NoCall EXCEPT !.op = "round_trip", !.order = order,
                                          !.out = xml, !.rec2 = rec2,
                                          !.same = records_identical(
                                                       rec, rec2, DefaultFlags)])

\* create_record is not called on a record: old is the empty record, and
\* last.rec2 the record as it was before the correction
CreateRecord ==
    /\ pc = "ready"
    /\ \E doc \in Docs(CreatedElems), correct \in BOOLEAN, sort \in BOOLEAN,
          keep_singletons \in BOOLEAN :
           \E order \in Orders(parsed_record(doc, sort, keep_singletons)) :
               LET created == create_record(doc, correct, sort,
                                            keep_singletons, order)
               IN  /\ rec' = created.rec
                   /\ last' = [NoCall EXCEPT
                                  !.op = "create_record", !.out = doc,
                                  !.correct = correct,
                                  !.sort_fields_by_indicators = sort,
                                  !.keep_singletons = keep_singletons,
                                  !.order = order,
                                  !.rec2 = parsed_record(doc, sort,
                                                         keep_singletons),
                                  !.errors = created.errors]
    /\ old' = EmptyRec
    /\ pc' = "returned"

\* the caller puts the record away and goes on to its next document
NextDocument ==
    /\ pc = "returned"
    /\ last.op = "create_record"
    /\ rec' = EmptyRec
    /\ old' = EmptyRec
    /\ last' = NoCall
    /\ pc' = "ready"

\* the caller drops the returned value and goes on to its next call
Continue ==
    /\ pc = "returned"
    /\ pc' = "ready"
    /\ old' = rec
    /\ last' = NoCall
    /\ UNCHANGED rec

ParsedInit(docs) ==
    /\ rec \in {create_record_lxml(d, CFG_BIBRECORD_KEEP_SINGLETONS) :
                    d \in docs}
    /\ old = rec
    /\ last = NoCall
    /\ pc = "ready"

MoveTags == {"100", "245"}

----------------------------------------------------------------------------
(* Insertion: record_add_field in its three addressing modes, on every     *)
(* parsed record, with deletions by local position opening gaps.           *)

InitAdd == ParsedInit(Docs(BlankData(Tags) \cup Control(Tags)))

NextAdd ==
    \/ AddFieldNoPosition
    \/ AddFieldLocal
    \/ AddFieldGlobal
    \/ DeleteFieldLocal
    \/ Continue

SpecAdd == InitAdd /\ [][NextAdd]_vars

(* Deletion: record_delete_field in its three addressing modes and         *)
(* record_delete_fields.                                                   *)

InitDelete == ParsedInit(Docs(BlankData(MoveTags) \cup IndData(MoveTags)))

NextDelete ==
    \/ DeleteFieldByIndicators
    \/ DeleteFieldGlobal
    \/ DeleteFieldLocal
    \/ DeleteFields
    \/ Continue

SpecDelete == InitDelete /\ [][NextDelete]_vars

(* Move: record_move_fields.                                               *)

InitMove == ParsedInit(Docs(BlankData(MoveTags) \cup IndData({"100"})))

NextMove ==
    \/ MoveFields
    \/ Continue

SpecMove == InitMove /\ [][NextMove]_vars

(* Removal: every operation that takes fields out of the record.          *)

InitShrink == ParsedInit(Docs(BlankData({"245"}) \cup TwoSubData({"100"})))

NextShrink ==
    \/ DeleteFieldByIndicators
    \/ DeleteFieldGlobal
    \/ DeleteFieldLocal
    \/ DeleteFieldBoth
    \/ DeleteFields
    \/ MoveFields
    \/ DeleteSubfieldFrom
    \/ Continue

SpecShrink == InitShrink /\ [][NextShrink]_vars

(* Addressing: the operations that work on one addressed field.           *)

InitAddress == ParsedInit(Docs(BlankData({"245"}) \cup TwoSubData({"100"})))

NextAddress ==
    \/ AddSubfieldInto
    \/ DeleteSubfieldFrom
    \/ ModifySubfield
    \/ MoveSubfield
    \/ ReplaceField
    \/ DeleteFieldGlobal
    \/ DeleteFieldLocal
    \/ Continue

SpecAddress == InitAddress /\ [][NextAddress]_vars

(* Lookup: the field and value lookups on the documented example record   *)
(* and on every record made of some of its fields.                         *)

InitLookup ==
    /\ rec \in {ExamplePart(S) : S \in SUBSET (1..5)}
    /\ old = rec
    /\ last = NoCall
    /\ pc = "ready"

NextLookup ==
    \/ GetFieldInstances
    \/ GetFieldValue
    \/ Continue

SpecLookup == InitLookup /\ [][NextLookup]_vars

(* Filtered lookup: record_get_field_values with a subfield filter and    *)
(* filter_field_instances.                                                 *)

InitFilter == ParsedInit(Docs(FilterData({"100"}) \cup BlankData({"245"})))

NextFilter ==
    \/ GetFieldValues
    \/ FilterFieldInstances
    \/ Continue

SpecFilter == InitFilter /\ [][NextFilter]_vars

(* Field search: record_find_field.                                        *)

InitFind ==
    ParsedInit(Docs(TwoSubData({"100"}) \cup SwappedData({"100"})
                    \cup BlankData({"100", "245"})))

NextFind ==
    \/ FindField
    \/ Continue

SpecFind == InitFind /\ [][NextFind]_vars

(* Comparison: records_identical on every pair of compared records, with   *)
(* every combination of its flags.                                         *)

InitCompare ==
    /\ rec \in ComparedRecords
    /\ old = rec
    /\ last = NoCall
    /\ pc = "ready"

NextCompare ==
    \/ RecordsIdentical
    \/ Continue

SpecCompare == InitCompare /\ [][NextCompare]_vars

(* Serialization: record_xml_output on every parsed record, and the round *)
(* trip through the parser.                                                *)

InitSerialize == ParsedInit(Docs(SerializedElems))

NextSerialize ==
    \/ XmlOutput
    \/ RoundTrip
    \/ Continue

SpecSerialize == InitSerialize /\ [][NextSerialize]_vars

(* Parsing: create_record on every document, with and without correction. *)

InitParse ==
    /\ rec = EmptyRec
    /\ old = rec
    /\ last = NoCall
    /\ pc = "ready"

NextParse ==
    \/ CreateRecord
    \/ NextDocument

SpecParse == InitParse /\ [][NextParse]_vars

(* Indicators: the entry points that take indicators, called with a blank *)
(* indicator in each of its spellings.                                     *)

InitWash ==
    ParsedInit(Docs(BlankData({"100"}) \cup IndData({"100"})
                    \cup Control({"100"})))

NextWash ==
    \/ CreateField
    \/ WashedAddField
    \/ WashedDeleteField
    \/ DeleteSubfield
    \/ WashedGetFieldInstances
    \/ WashedGetFieldValue
    \/ WashedGetFieldValues

SpecWash == InitWash /\ [][NextWash]_vars

(* Cleaning: record_strip_empty_fields on every parsed record.            *)

InitStrip == ParsedInit(Docs(StrippedElems))

NextStrip ==
    \/ StripEmptyFields
    \/ Continue

SpecStrip == InitStrip /\ [][NextStrip]_vars

(* First value: record_get_field_value on records with subfields of no    *)
(* value.                                                                  *)

InitFirstValue == ParsedInit(Docs(FirstValueElems))

NextFirstValue ==
    \/ GetFieldValue
    \/ Continue

SpecFirstValue == InitFirstValue /\ [][NextFirstValue]_vars

----------------------------------------------------------------------------
(* Properties *)

Ascending(fields) ==
    \A i \in 1..(Len(fields) - 1) : fields[i].pos < fields[i + 1].pos

UniquePositions(r) ==
    \A t \in DOMAIN r, u \in DOMAIN r :
        \A i \in 1..Len(r[t]), j \in 1..Len(r[u]) :
            (t # u \/ i # j) => r[t][i].pos # r[u][j].pos

\* the position invariants of the data model
PositionInvariants(r) ==
    /\ UniquePositions(r)
    /\ \A t \in DOMAIN r : Ascending(r[t])

\* a field as it is after every position >= g has moved up by one
ShiftedFrom(f, g) == IF f.pos >= g THEN [f EXCEPT !.pos = @ + 1] ELSE f
ShiftedList(fields, g) ==
    [i \in 1..Len(fields) |-> ShiftedFrom(fields[i], g)]

Contents(fields) == [i \in 1..Len(fields) |-> Content(fields[i])]

\* how many times x occurs in the sequence s
Count(s, x) == Cardinality({i \in 1..Len(s) : s[i] = x})
SameBag(s, t) == \A x \in Range(s) \cup Range(t) : Count(s, x) = Count(t, x)

Last(fields) == fields[Len(fields)]

AddReturned == pc = "returned" /\ last.op = "record_add_field"
AddAccepted == AddReturned /\ last.ret # -1
NoPosition == last.fpg = None /\ last.fpl = None

\* the field an accepted record_add_field call has put into the record
AddedField ==
    MkField(last.sf,
            IF last.ind1 \in {"", "_"} THEN " " ELSE last.ind1,
            IF last.ind2 \in {"", "_"} THEN " " ELSE last.ind2,
            last.val, last.ret)

\* C1: after every step of a sequence of mutation-engine calls on a record
\* satisfying the position invariants, global positions are unique across the
\* record and strictly ascending within every tag.
C1_PositionInvariantsKept == PositionInvariants(rec)

\* C2: record_add_field with an explicit field_position_global on a record
\* satisfying the position invariants shifts the existing fields so that
\* afterwards no other field of the record holds the new field's global
\* position and the tag's field list is still strictly ascending.
C2_GlobalInsertShifts ==
    (AddAccepted /\ last.fpg # None /\ last.fpl = None
     /\ PositionInvariants(old))
    => /\ \E i \in 1..Len(rec[last.tag]) : rec[last.tag][i] = AddedField
       /\ \A t \in DOMAIN rec :
            Count([i \in 1..Len(rec[t]) |-> rec[t][i].pos], last.ret)
                = IF t = last.tag THEN 1 ELSE 0
       /\ Ascending(rec[last.tag])

\* the tags of the record that are lower, respectively higher, than tag
LowerTags(r, tag) == {t \in DOMAIN r : TagLess(t, tag)}
HigherTags(r, tag) == {t \in DOMAIN r : TagLess(tag, t)}
NearestLower(r, tag) ==
    CHOOSE t \in LowerTags(r, tag) : \A u \in LowerTags(r, tag) : ~TagLess(t, u)

\* the case of C3: no position, a numeric tag that is not in the record, on a
\* record that satisfies the position invariants and holds a lower tag
C3_Case ==
    /\ AddAccepted /\ NoPosition
    /\ last.tag \notin DOMAIN old
    /\ last.tag \notin AdminTags
    /\ PositionInvariants(old)
    /\ LowerTags(old, last.tag) # {}

C4_AppendAfterLastOfTag ==
    (AddAccepted /\ NoPosition /\ last.tag \in DOMAIN old
     /\ PositionInvariants(old))
    => LET g == Last(old[last.tag]).pos + 1
       IN  /\ last.ret = g
           /\ DOMAIN rec = DOMAIN old
           /\ rec[last.tag] = old[last.tag] \o <<AddedField>>
           /\ \A t \in DOMAIN old \ {last.tag} :
                rec[t] = ShiftedList(old[t], g)

\* C4 witness: an append that had to shift a field of another tag
C4_Witness ==
    /\ AddAccepted /\ NoPosition /\ last.tag \in DOMAIN old
    /\ PositionInvariants(old)
    /\ \E t \in DOMAIN old \ {last.tag} : rec[t] # old[t]

\* C5: record_add_field with no position for an administrative tag that is
\* not in the record gives the new field a position greater than that of
\* every field already in the record and changes no existing field.
C5_AdminTagAtEnd ==
    (AddAccepted /\ NoPosition /\ last.tag \in AdminTags
     /\ last.tag \notin DOMAIN old)
    => /\ \A g \in AllPositions(old) : last.ret > g
       /\ DOMAIN rec = DOMAIN old \cup {last.tag}
       /\ rec[last.tag] = <<AddedField>>
       /\ \A t \in DOMAIN old : rec[t] = old[t]

\* C5 witness: FMT added to a record whose last field is not of its highest
\* tag
C5_Witness ==
    /\ AddAccepted /\ NoPosition /\ last.tag = "FMT"
    /\ "FMT" \notin DOMAIN old
    /\ {"100", "500"} \subseteq DOMAIN old
    /\ old["500"][1].pos < old["100"][1].pos

\* the tag's list after the call is the list before it, in order and with
\* the same contents, plus the added field at 0-based index p
InsertedAt(p) ==
    /\ p < Len(rec[last.tag])
    /\ rec[last.tag][p + 1] = AddedField
    /\ Contents(ListDel(rec[last.tag], p)) = Contents(Get(old, last.tag))

ClampedGlobal(r, tag, g) ==
    LET ps == {r[tag][i].pos : i \in 1..Len(r[tag])}
        lo == CHOOSE x \in ps : \A y \in ps : x <= y
        hi == CHOOSE x \in ps : \A y \in ps : y <= x
    IN  IF tag \notin DOMAIN r
        THEN IF AllPositions(r) = {} THEN 1
             ELSE 1 + CHOOSE x \in AllPositions(r) :
                          \A y \in AllPositions(r) : y <= x
        ELSE IF g < lo THEN lo
        ELSE IF g > hi THEN hi + 1
        ELSE g

C7_Case ==
    /\ AddReturned
    /\ last.val # ""
    /\ \/ last.ind1 \notin {" ", "", "_"}
       \/ last.ind2 \notin {" ", "", "_"}
       \/ last.sf # <<>>

\* C7: record_add_field called with a non-empty controlfield_value together
\* with a non-blank indicator or a non-empty subfield list returns -1 and
\* leaves the record unchanged, whatever position arguments are supplied.
C7_ControlWithDataRejected ==
    C7_Case => (last.ret = -1 /\ rec = old)

\* C7 witness: such a call with a global position that holds a field
C7_Witness ==
    /\ C7_Case
    /\ last.sf # <<>>
    /\ last.fpg # None
    /\ last.fpg[1] \in AllPositions(old)
    /\ last.ret = -1

\* the 0-based positions of the tag that record_move_fields selects and
\* leaves
MoveSelected == (0..(Len(old[last.tag]) - 1)) \cap last.sel[1]
MoveKept == (0..(Len(old[last.tag]) - 1)) \ last.sel[1]

\* s occurs in t as a subsequence (in order) and the rest of t is the
\* elements of rest, in any order
SubsequencePlus(s, rest, t) ==
    \E S \in SUBSET (1..Len(t)) :
        /\ ListByIndex(t, {i - 1 : i \in S}) = s
        /\ SameBag(ListByIndex(t, {i - 1 : i \in (1..Len(t)) \ S}), rest)

\* C8: record_move_fields keeps the relative order of the moved group: after
\* the move the tag holds the same fields (subfields, indicators, value) as
\* before and the moved fields appear in the same relative order.
C8_MoveKeepsRelativeOrder ==
    (pc = "returned" /\ last.op = "record_move_fields"
     /\ last.tag \in DOMAIN old)
    => SubsequencePlus(Contents(ListByIndex(old[last.tag], MoveSelected)),
                       Contents(ListByIndex(old[last.tag], MoveKept)),
                       Contents(Get(rec, last.tag)))

DeleteReturned == pc = "returned" /\ last.op = "record_delete_field"

\* C9: record_delete_field returns the list of exactly the fields it removed,
\* in each addressing mode: the tag's list before the call is the list after
\* the call with the returned fields put back.
C9_DeleteReturnsRemoved ==
    (DeleteReturned /\ last.tag \in DOMAIN old)
    => /\ last.kind = "list"
       /\ SameBag(old[last.tag], Get(rec, last.tag) \o last.out)

\* C10: if the tag holds a field with global position g,
\* record_delete_field(rec, tag, field_position_global=g) removes that field
\* and only that field, whatever its indicators; every other field of the
\* record is unchanged.
C10_DeleteGlobalRemovesField ==
    (DeleteReturned /\ last.fpg # None /\ last.fpl = None
     /\ last.ind1 = " " /\ last.ind2 = " "
     /\ last.tag \in DOMAIN old /\ PositionInvariants(old)
     /\ \E i \in 1..Len(old[last.tag]) : old[last.tag][i].pos = last.fpg[1])
    => LET IsNot(f) == f.pos # last.fpg[1]
       IN  /\ Get(rec, last.tag) = SelectSeq(old[last.tag], IsNot)
           /\ \A t \in DOMAIN old \ {last.tag} :
                t \in DOMAIN rec /\ rec[t] = old[t]

\* C11: when record_delete_field is given both field_position_global and
\* field_position_local, the resulting record is the one the same call gives
\* with only field_position_local.
C11_LocalTakesPrecedence ==
    (DeleteReturned /\ last.fpg # None /\ last.fpl # None)
    => rec = record_delete_field(old, last.tag, last.ind1, last.ind2, None,
                                 last.fpl).rec

\* C12: no tag of the record maps to an empty field list after any sequence
\* of record_delete_field, record_delete_fields, record_move_fields and
\* record_delete_subfield_from calls on a parsed record.
C12_NoEmptyTag == \A t \in DOMAIN rec : rec[t] # <<>>

\* C12 witness: local position 0 of a one-field tag was deleted and the tag
\* is no longer a key of the record
C12_Witness ==
    /\ DeleteReturned /\ last.fpg = None /\ last.fpl = Some(0)
    /\ last.tag \in DOMAIN old
    /\ Len(old[last.tag]) = 1
    /\ last.tag \notin DOMAIN rec

\* the case of C13: only a local position, past the end of an existing tag
C13_Case ==
    /\ DeleteReturned /\ last.fpg = None /\ last.fpl # None
    /\ last.tag \in DOMAIN old
    /\ last.fpl[1] >= Len(old[last.tag])

\* C13: record_delete_field with a field_position_local that is out of
\* range for an existing tag returns an empty list, raises no error and
\* leaves the record unchanged.
C13_OutOfRangeLocalIsNoOp ==
    C13_Case => (last.kind = "list" /\ last.out = <<>> /\ rec = old)

\* C13 witness: the index just past the end of a tag that holds fields
C13_Witness ==
    /\ C13_Case
    /\ last.fpl[1] = Len(old[last.tag])
    /\ Len(old[last.tag]) >= 2

DeleteSubfieldReturned ==
    pc = "returned" /\ last.op = "record_delete_subfield_from"

\* the 1-based indices in old[last.tag] of the field the call addresses, by
\* its global position or by its local position
Addressed ==
    IF last.tag \notin DOMAIN old THEN {}
    ELSE IF last.fpg # None /\ last.fpl = None
    THEN {i \in 1..Len(old[last.tag]) : old[last.tag][i].pos = last.fpg[1]}
    ELSE IF last.fpl # None /\ last.fpg = None
    THEN {i \in 1..Len(old[last.tag]) : i = last.fpl[1] + 1}
    ELSE {}

\* C15: record_delete_subfield_from removes exactly the subfield at the
\* given index of the addressed field and nothing else; if that leaves the
\* field with no subfield the field is removed from its tag, and if that
\* leaves the tag with no field the tag is removed from the record; with an
\* invalid subfield index it raises an error and the record is unchanged.
C15_DeleteSubfieldFrom ==
    (DeleteSubfieldReturned /\ PositionInvariants(old))
    => \A i \in Addressed :
         LET fields == old[last.tag]
             subfields == fields[i].sf
             sp == last.subfield_position[1]
         IN  IF sp >= Len(subfields)
             THEN last.exc = FieldError /\ rec = old
             ELSE /\ last.exc = ""
                  /\ \A t \in DOMAIN old \ {last.tag} :
                        t \in DOMAIN rec /\ rec[t] = old[t]
                  /\ DOMAIN rec \subseteq DOMAIN old
                  /\ IF Len(subfields) > 1
                     THEN Get(rec, last.tag) =
                            [fields EXCEPT ![i] =
                                [@ EXCEPT !.sf = ListDel(subfields, sp)]]
                     ELSE IF Len(fields) > 1
                     THEN Get(rec, last.tag) = ListDel(fields, i - 1)
                     ELSE last.tag \notin DOMAIN rec

\* C15 witness: the only subfield of the only field of a tag was deleted,
\* the field being addressed by its global position, and the tag is gone
C15_Witness ==
    /\ DeleteSubfieldReturned /\ PositionInvariants(old)
    /\ last.fpg # None
    /\ Addressed # {}
    /\ Len(old[last.tag]) = 1
    /\ Len(old[last.tag][1].sf) = 1
    /\ DOMAIN old # {last.tag}
    /\ last.exc = ""
    /\ last.tag \notin DOMAIN rec

\* the operations that address one field by its global or local position
AddressingOps ==
    {"record_add_subfield_into", "record_delete_subfield_from",
     "record_modify_subfield", "record_move_subfield",
     "record_replace_field", "record_delete_field"}

\* C14: addressing a field that does not exist (a tag not in the record, or
\* a local or global position that no field of the tag holds) is reported as
\* a field-not-found error and leaves the record unchanged, for every
\* subfield-level operation, for record_replace_field and for
\* record_delete_field with a global or a local position.
C14_MissingFieldIsAnError ==
    (/\ pc = "returned" /\ last.op \in AddressingOps
     /\ (last.fpg = None) # (last.fpl = None)
     /\ Addressed = {})
    => (last.exc = FieldError /\ rec = old)

\* a selector picks an indicator: '%' picks any, an empty string, an
\* underscore or a blank picks only a blank, any other only itself
Chosen(selector, indicator) ==
    IF selector = "%" THEN TRUE
    ELSE IF selector \in {"", "_", " "} THEN indicator = " "
    ELSE indicator = selector

C16_Case ==
    /\ pc = "returned" /\ last.op = "record_get_field_instances"
    /\ last.tag # "" /\ ~has_wildcard(last.tag)

\* C16: record_get_field_instances with a fully specified tag returns
\* exactly the fields of that tag whose indicator1 matches ind1 and whose
\* indicator2 matches ind2, in their list order, an empty-string or
\* underscore selector matching only a blank indicator and '%' any
\* indicator; the record is not modified.
C16_InstancesOfTag ==
    C16_Case
    => LET Wanted(f) == /\ Chosen(last.ind1, f.ind1)
                        /\ Chosen(last.ind2, f.ind2)
       IN  /\ last.kind = "list"
           /\ last.out = SelectSeq(Get(rec, last.tag), Wanted)
           /\ rec = old

\* C16 witness: an empty ind1 selector on the four 555 fields of the
\* example returned the field with blank indicators and none of the others
C16_Witness ==
    /\ C16_Case
    /\ last.tag = "555" /\ last.ind1 = "" /\ last.ind2 = "%"
    /\ Get(rec, "555") = Example555
    /\ last.out = <<Example555[3]>>

C17_Case ==
    /\ pc = "returned" /\ last.op = "record_get_field_value"
    /\ last.tag = "555"
    /\ Contents(Get(rec, "555")) = Contents(Example555)

Asked(ind1, ind2, code) ==
    last.ind1 = ind1 /\ last.ind2 = ind2 /\ last.code = code

\* C17 (as claimed): on a record whose tag 555 holds the four fields of the
\* example, record_get_field_value returns val5 for (A, '', ''), val3 for
\* (A, '%', ''), val2 for (A, '%', '%'), val4 for ('', '', 'a') and the
\* empty string for ('', '', '').
C17_DocumentedValues ==
    C17_Case
    => /\ Asked("A", "", "") => last.value = "val5"
       /\ Asked("A", "%", "") => last.value = "val3"
       /\ Asked("A", "%", "%") => last.value = "val2"
       /\ Asked("", "", "a") => last.value = "val4"
       /\ Asked("", "", "") => last.value = ""

\* C17 (amended): on that record record_get_field_value returns the empty
\* string for (A, '', ''), the field with ind1 A and a blank ind2 having no
\* value of its own, and val5 for (A, '', 'a'); val3 for (A, '%', ''), val2
\* for (A, '%', '%'), val4 for ('', '', 'a') and the empty string for
\* ('', '', '').
C17_ValuesOfExample ==
    C17_Case
    => /\ Asked("A", "", "") => last.value = ""
       /\ Asked("A", "", "a") => last.value = "val5"
       /\ Asked("A", "%", "") => last.value = "val3"
       /\ Asked("A", "%", "%") => last.value = "val2"
       /\ Asked("", "", "a") => last.value = "val4"
       /\ Asked("", "", "") => last.value = ""

\* C17 witness: the lookup (555, A, '', '') was made on the example record
C17_Witness ==
    /\ C17_Case
    /\ Asked("A", "", "")
    /\ last.value = ""

\* C18: record_get_field_value with tag '%%%', ind1 '%', ind2 '%', code '%'
\* on a record that holds tag 100 (ind1 C, ind2 5, subfield a=val1) and 555
\* fields of the example that carry subfields returns val1, in whatever
\* order the tags were put into the record.
C18_WildcardFindsLowestTag ==
    (/\ pc = "returned" /\ last.op = "record_get_field_value"
     /\ last.tag = "%%%" /\ Asked("%", "%", "%")
     /\ Get(rec, "100") = Example100
     /\ \E i \in 1..Len(Get(rec, "555")) : rec["555"][i].sf # <<>>)
    => last.value = "val1"

\* the string v occurs in the string s
Contains(s, v) ==
    \E i \in 0..Len(StrChars(s)) :
        /\ i + Len(StrChars(v)) <= Len(StrChars(s))
        /\ \A k \in 1..Len(StrChars(v)) :
              StrChars(s)[i + k] = StrChars(v)[k]

\* the field holds a subfield with the filter's code whose value passes the
\* filter's test
HoldsFiltered(f) ==
    \E j \in 1..Len(f.sf) :
        /\ f.sf[j][1] = last.filter_subfield_code
        /\ IF last.filter_subfield_mode = "e"
           THEN f.sf[j][2] = last.filter_subfield_value
           ELSE Contains(f.sf[j][2], last.filter_subfield_value)

\* the values the code selector picks in a field
SelectedValues(f) ==
    LET Picked(sub) == last.code = "%" \/ sub[1] = last.code
        subs == SelectSeq(f.sf, Picked)
    IN  [j \in 1..Len(subs) |-> subs[j][2]]

\* C19: record_get_field_values with a subfield filter (code c, value v) and
\* a subfield-code selector returns the selected values of exactly those
\* matching fields that hold some subfield with code c whose value equals v
\* (mode 'e') or contains v (mode 's'), also for a field that repeats code c
\* with only one of the repeated subfields passing the test, and never from
\* a field without a subfield of code c.
C19_FilteredValues ==
    (/\ pc = "returned" /\ last.op = "record_get_field_values"
     /\ last.filter_subfield_code # "")
    => LET Wanted(f) == /\ Chosen(last.ind1, f.ind1)
                        /\ Chosen(last.ind2, f.ind2)
                        /\ HoldsFiltered(f)
           fields == SelectSeq(Get(rec, last.tag), Wanted)
       IN  last.out = Concat([i \in 1..Len(fields) |->
                                 SelectedValues(fields[i])])

\* a field of the record equals the prototype of the search
EqualsPrototype(f) ==
    LET prototype == last.new_field[1]
    IN  /\ f.ind1 = prototype.ind1
        /\ f.ind2 = prototype.ind2
        /\ f.val = prototype.val
        /\ IF last.strict THEN f.sf = prototype.sf
           ELSE \A sub \in Range(f.sf) \cup Range(prototype.sf) :
                    sub \in Range(f.sf) /\ sub \in Range(prototype.sf)

FindReturned == pc = "returned" /\ last.op = "record_find_field"

\* C20: record_find_field returns the pair (global position, local
\* position) of the first field of the tag, in list order, that equals the
\* prototype (strict: same subfields in the same order, same indicators and
\* value; not strict: same indicators and value and the same set of
\* subfields), and (None, None) when no field of the tag does; the returned
\* local position indexes a field holding the returned global position and
\* the record is unchanged.
C20_FindField ==
    FindReturned
    => LET fields == Get(rec, last.tag)
           hits == {i \in 1..Len(fields) : EqualsPrototype(fields[i])}
       IN  /\ rec = old
           /\ hits = {} => last.out = <<None, None>>
           /\ hits # {}
              => /\ last.out[1] # None /\ last.out[2] # None
                 /\ last.out[2][1] + 1 \in hits
                 /\ \A i \in hits : last.out[2][1] + 1 <= i
                 /\ fields[last.out[2][1] + 1].pos = last.out[1][1]

\* C20 witness: a search that is not strict found, behind a field that does
\* not equal the prototype, a field with the prototype's subfields in
\* another order
C20_Witness ==
    /\ FindReturned /\ ~last.strict
    /\ last.out[2] # None
    /\ last.out[2][1] >= 1
    /\ rec[last.tag][last.out[2][1] + 1].sf # last.new_field[1].sf

----------------------------------------------------------------------------
(* The comparator *)

CompareReturned == pc = "returned" /\ last.op = "records_identical"

\* the tags a comparison looks at when the timestamp is skipped
ComparedTags(r) == DOMAIN r \ {"005"}

C21_Case ==
    /\ CompareReturned
    /\ last.flags.skip_005
    /\ last.flags.ignore_field_order
    /\ ~last.flags.ignore_subfield_order
    /\ ~last.flags.ignore_duplicate_subfields
    /\ ~last.flags.ignore_duplicate_controlfields

\* C21: with the field order ignored and the subfield and controlfield
\* tolerances off, records_identical returns true exactly when the two
\* records have the same tags, 005 apart, and under every such tag the two
\* lists of fields hold the same contents (subfields in order, indicators,
\* value) the same number of times; the order of the fields and their global
\* positions play no role.
C21_IdenticalUpToFieldOrder ==
    C21_Case
    => (last.same
        <=> /\ ComparedTags(rec) = ComparedTags(last.rec2)
            /\ \A tag \in ComparedTags(rec) :
                   SameBag(Contents(rec[tag]), Contents(last.rec2[tag])))

\* C21 witness: two records judged identical that hold the same two different
\* fields under a tag in opposite orders, one of them with a timestamp
C21_Witness ==
    /\ C21_Case
    /\ last.same
    /\ "005" \in DOMAIN rec /\ "005" \notin DOMAIN last.rec2
    /\ \E tag \in ComparedTags(rec) :
           /\ Len(rec[tag]) = 2
           /\ Content(rec[tag][1]) # Content(rec[tag][2])
           /\ Contents(last.rec2[tag]) = Reverse(Contents(rec[tag]))

C22_Case ==
    /\ CompareReturned
    /\ last.flags = DefaultFlags

\* the tags under which the two compared records hold the same fields in
\* two different orders by global position
ReorderedTags ==
    {tag \in DOMAIN rec \cap DOMAIN last.rec2 :
        /\ Ascending(rec[tag]) /\ Ascending(last.rec2[tag])
        /\ SameBag(Contents(rec[tag]), Contents(last.rec2[tag]))
        /\ Contents(rec[tag]) # Contents(last.rec2[tag])}

\* C22: with ignore_field_order=False, two records that hold the same fields
\* under a tag in two different orders by global position, for instance two
\* fields with different indicators swapped, are judged not identical.
C22_ExactByGlobalPosition ==
    C22_Case /\ ReorderedTags # {} => ~last.same

\* the contents of the fields of the given indicators, in the order of the
\* list
OfIndicators(fields, ind1, ind2) ==
    LET Has(f) == f.ind1 = ind1 /\ f.ind2 = ind2
    IN  Contents(SelectSeq(fields, Has))

IndicatorPairs(fields) ==
    {<<fields[i].ind1, fields[i].ind2>> : i \in 1..Len(fields)}

\* C22, as the code has it: with ignore_field_order=False and the other
\* tolerances off, two records whose lists of fields are in ascending global
\* position are identical exactly when they have the same tags, 005 apart,
\* and under every such tag, for each pair of indicators, the fields of these
\* indicators have the same contents in the same order by global position;
\* the order between fields of different indicators plays no role.
C22_ExactByIndicatorsThenPosition ==
    /\ C22_Case
    /\ \A tag \in DOMAIN rec : Ascending(rec[tag])
    /\ \A tag \in DOMAIN last.rec2 : Ascending(last.rec2[tag])
    => (last.same
        <=> /\ ComparedTags(rec) = ComparedTags(last.rec2)
            /\ \A tag \in ComparedTags(rec) :
                 \A p \in IndicatorPairs(rec[tag])
                          \cup IndicatorPairs(last.rec2[tag]) :
                     OfIndicators(rec[tag], p[1], p[2])
                        = OfIndicators(last.rec2[tag], p[1], p[2]))

\* C22 witness: two fields of different indicators swapped, the records
\* being judged identical
C22_Witness ==
    /\ C22_Case
    /\ last.same
    /\ \E tag \in ReorderedTags :
           /\ Len(rec[tag]) = 2
           /\ rec[tag][1].ind1 # rec[tag][2].ind1
           /\ Contents(last.rec2[tag]) = Reverse(Contents(rec[tag]))

\* C29: records_identical is monotone in ignore_field_order: whatever the
\* other flags, two records identical with ignore_field_order=False are
\* identical with ignore_field_order=True.
C29_MonotoneInFieldOrder ==
    /\ CompareReturned
    /\ ~last.flags.ignore_field_order
    /\ last.same
    => records_identical(rec, last.rec2,
                         [last.flags EXCEPT !.ignore_field_order = TRUE])

----------------------------------------------------------------------------
(* The serializer and the round trip *)

\* C23: for every parsed record, parsing the text record_xml_output writes for
\* it gives a record that records_identical judges identical to it with every
\* tolerance off, records with empty controlfields and with missing
\* attributes included.
C23_RoundTrip ==
    pc = "returned" /\ last.op = "round_trip" => last.same

XmlOutputReturned == pc = "returned" /\ last.op = "record_xml_output"

\* the tags of the record the call is to write: all of them without a tags
\* argument, the listed ones and 001 with one
SelectedTags ==
    IF last.tags = {} THEN DOMAIN rec
    ELSE (last.tags \cup {"001"}) \cap DOMAIN rec

\* C24: record_xml_output writes exactly one element per field of the
\* selected tags, in ascending global position across all tags; with a tags
\* argument it writes the fields of the listed tags and of tag 001 only, 001
\* included even if it is not listed; it leaves the record as it was.
C24_OneElementPerSelectedField ==
    XmlOutputReturned
    => LET sel == UNION {{[tag |-> t, field |-> rec[t][i]] :
                              i \in 1..Len(rec[t])} : t \in SelectedTags}
               \* how many of them come before in global position
               Rank(x) == Cardinality({y \in sel : y.field.pos < x.field.pos})
       IN  /\ rec = old
           /\ Len(last.out) = Cardinality(sel)
           /\ \A x \in sel :
                  last.out[Rank(x) + 1] = field_xml_output(x.field, x.tag)

\* C24 witness: a call with a tags argument that does not list 001, on a
\* record with a field of tag 001, a listed tag and a tag not listed, the
\* dictionary yielding the tags in descending order of position
C24_Witness ==
    /\ XmlOutputReturned
    /\ last.tags = {"100"}
    /\ {"001", "100", "245"} \subseteq DOMAIN rec
    /\ Len(last.out) = 2
    /\ last.order[1] = "245" /\ last.order[2] = "100"

----------------------------------------------------------------------------
(* The parser and the correction *)

CreateReturned == pc = "returned" /\ last.op = "create_record"

\* the elements of the parsed document the parser makes fields of
EmittedControls ==
    LET Is(e) == e.elem = "controlfield" /\ is_emitted(e, last.keep_singletons)
    IN  SelectSeq(last.out, Is)

EmittedDatas ==
    LET Is(e) == e.elem = "datafield" /\ is_emitted(e, last.keep_singletons)
    IN  SelectSeq(last.out, Is)

\* the record holds under tag a field of the content of f at position p
HoldsAt(r, tag, f, p) ==
    /\ tag \in DOMAIN r
    /\ \E i \in 1..Len(r[tag]) : r[tag][i] = [f EXCEPT !.pos = p]

C25_Case ==
    /\ CreateReturned
    /\ ~last.correct
    /\ ~last.sort_fields_by_indicators

\* C25: the parser numbers the fields it emits 1..n without gaps in the order
\* it emits them, and every emitted controlfield gets a lower position than
\* every emitted datafield, however the two kinds of element are interleaved
\* in the document; so a parsed record satisfies the position invariants.
C25_ControlsBeforeDatas ==
    C25_Case
    => LET c == Len(EmittedControls)
           d == Len(EmittedDatas)
       IN  /\ NumFields(rec) = c + d
           /\ AllPositions(rec) = 1..(c + d)
           /\ \A k \in 1..c :
                  HoldsAt(rec, attrib_get(EmittedControls[k].tag),
                          controlfield_field(EmittedControls[k]), k)
           /\ \A k \in 1..d :
                  HoldsAt(rec, attrib_get(EmittedDatas[k].tag),
                          datafield_field(EmittedDatas[k],
                                          last.keep_singletons), c + k)
           /\ PositionInvariants(rec)

\* C25 witness: a document with a controlfield behind a datafield, both
\* emitted
C25_Witness ==
    /\ C25_Case
    /\ Len(EmittedControls) > 0 /\ Len(EmittedDatas) > 0
    /\ \E i, j \in 1..Len(last.out) :
           /\ i < j
           /\ last.out[i].elem = "datafield"
           /\ last.out[j].elem = "controlfield"
           /\ is_emitted(last.out[i], last.keep_singletons)
           /\ is_emitted(last.out[j], last.keep_singletons)

\* the fields of a record, whatever their tag, as a set of
\* (subfield values, value, global position)
FieldData(r) ==
    UNION {{<<[j \in 1..Len(r[t][i].sf) |-> r[t][i].sf[j][2]],
              r[t][i].val, r[t][i].pos>> : i \in 1..Len(r[t])} :
           t \in DOMAIN r}

\* C26: _correct_record never drops data: the corrected record has as many
\* fields as the parsed one, with the same subfield values, the same values
\* and the same global positions; only tags, subfield codes and indicators
\* change, also when several tags go to the dummy tag 000 or the record
\* already has the dummy tag.
C26_CorrectionKeepsData ==
    CreateReturned /\ last.correct
    => /\ NumFields(rec) = NumFields(last.rec2)
       /\ FieldData(rec) = FieldData(last.rec2)

----------------------------------------------------------------------------
(* Indicators *)

\* the blank an indicator stands for when it is spelled '' or '_'
Blank(indicator) == IF indicator \in {"", "_"} THEN " " ELSE indicator

WashingOps ==
    {"create_field", "record_add_field", "record_delete_field",
     "record_delete_subfield", "record_get_field_instances",
     "record_get_field_value", "record_get_field_values"}

\* a call of one of the entry points with a blank indicator spelled '' or '_'
C27_Case ==
    /\ pc = "returned"
    /\ last.op \in WashingOps
    /\ last.ind1 \in {"", "_"} \/ last.ind2 \in {"", "_"}

\* C27: at every entry point that takes indicators, writing a blank indicator
\* as '' or '_' instead of ' ' changes neither what the call returns nor the
\* record it leaves.
C27_BlankSpellingsAgree ==
    C27_Case
    => LET i1 == Blank(last.ind1)
           i2 == Blank(last.ind2)
       IN  CASE last.op = "create_field" ->
                  /\ rec = old
                  /\ last.new_field
                        = create_field(last.sf, i1, i2, last.val, -1).field
                  /\ last.exc = create_field(last.sf, i1, i2, last.val, -1).exc
             [] last.op = "record_add_field" ->
                  LET res == record_add_field(old, last.tag, i1, i2, last.val,
                                              last.sf, last.fpg, last.fpl)
                  IN  rec = res.rec /\ last.ret = res.ret
             [] last.op = "record_delete_field" ->
                  LET res == record_delete_field(old, last.tag, i1, i2,
                                                 last.fpg, last.fpl)
                  IN  /\ rec = res.rec
                      /\ last.out = res.ret /\ last.kind = res.kind
             [] last.op = "record_delete_subfield" ->
                  rec = record_delete_subfield(old, last.tag, last.code,
                                               i1, i2)
             [] last.op = "record_get_field_instances" ->
                  LET res == record_get_field_instances(old, last.order,
                                                        last.tag, i1, i2)
                  IN  /\ rec = old
                      /\ last.out = res.out /\ last.kind = res.kind
             [] last.op = "record_get_field_value" ->
                  /\ rec = old
                  /\ last.value = record_get_field_value(
                                      old, last.order, last.tag, i1, i2,
                                      last.code)
             [] last.op = "record_get_field_values" ->
                  /\ rec = old
                  /\ last.out = record_get_field_values(
                                    old, last.order, last.tag, i1, i2,
                                    last.code, last.filter_subfield_code,
                                    last.filter_subfield_value,
                                    last.filter_subfield_mode)

\* C27 witness: a deletion with both indicators blank, one spelled '' and the
\* other '_', that removed a field of blank indicators
C27_Witness ==
    /\ C27_Case
    /\ last.op = "record_delete_field"
    /\ last.ind1 = "" /\ last.ind2 = "_"
    /\ NumFields(rec) < NumFields(old)

----------------------------------------------------------------------------
(* Cleaning *)

\* C28: on a record that satisfies the position invariants,
\* record_strip_empty_fields leaves a record that satisfies them, each field
\* it keeps having the global position it had.
C28_StripKeepsPositions ==
    /\ pc = "returned"
    /\ last.op = "record_strip_empty_fields"
    /\ PositionInvariants(old)
    => /\ PositionInvariants(rec)
       /\ \A tag \in DOMAIN rec :
              /\ tag \in DOMAIN old
              /\ \A i \in 1..Len(rec[tag]) :
                     \E j \in 1..Len(old[tag]) :
                         /\ rec[tag][i].pos = old[tag][j].pos
                         /\ rec[tag][i].ind1 = old[tag][j].ind1
                         /\ rec[tag][i].ind2 = old[tag][j].ind2
                         /\ rec[tag][i].val = old[tag][j].val

----------------------------------------------------------------------------
(* First value and all values *)

C30_Case ==
    /\ pc = "returned"
    /\ last.op = "record_get_field_value"
    /\ ~has_wildcard(last.tag)

\* what record_get_field_values returns for the selector of the call, with
\* no filter
AllValues ==
    record_get_field_values(old, last.order, last.tag, last.ind1, last.ind2,
                            last.code, "", "", "e")

\* C30: for a fully specified tag and no filter, record_get_field_value
\* returns the first element of what record_get_field_values returns for the
\* same selector, and the empty string exactly when that list is empty.
C30_FirstOfValues ==
    C30_Case
    => /\ AllValues # <<>> => last.value = Head(AllValues)
       /\ last.value = "" <=> AllValues = <<>>

\* C30, as the code has it: the value is the first element of the list, and
\* the empty string when the list is empty; it is the empty string as well
\* when the first element is.
C30_FirstOfValuesOrEmpty ==
    C30_Case
    => last.value = (IF AllValues = <<>> THEN "" ELSE Head(AllValues))

\* C30 witness: a lookup by code on a record where the list holds an empty
\* value first and another value behind it
C30_Witness ==
    /\ C30_Case
    /\ last.code = "a"
    /\ Len(AllValues) >= 2
    /\ Head(AllValues) = "" /\ AllValues[2] # ""
    /\ last.value = ""

====
